---- MODULE Spec2Model ----
(***************************************************************************)
(* Credential pool and token ledger of the rave telegram bot.              *)
(*                                                                         *)
(* The repository holds several variants of the same bot:                  *)
(*   - the Redis variant        (src/rave bot/index.js, lines 1-323)       *)
(*   - the two-request variants (src/rave bot/index.js, lines 325-655,     *)
(*                               src/unnamed/part_000,                     *)
(*                               src/unnamed/part_001, lines 1-323)        *)
(*   - the retry variant        (src/unnamed/part_001, lines 325-782)      *)
(*   - the minimal variant      (src/unnamed/part_002)                     *)
(* Every await of the source is a suspension point, so every storage       *)
(* request is one atomic step and requests of different updates interleave.*)
(***************************************************************************)
EXTENDS Integers, Sequences, FiniteSets, Bags, TLC

VARIABLES
    variant,    \* which variant of the bot is deployed
    pool,       \* table pool_items: sequence of rows, row k has id k
    redisPool,  \* Redis list "pool", head first
    tokens,     \* ledger: set of Token records
    issued,     \* Redis list "issued", head first
    issues,     \* bag of issuance requests in flight or finished
    uploads,    \* bag of upload requests in flight or finished
    handout,    \* history: entries returned by successful claims, in order
    uploaded,   \* history: lines stored by uploads, in storage order
    probe,      \* input and results of the parsers under test
    revokes,    \* bag of revoke requests in flight or finished
    channel     \* whether the audit channel accepts messages in this run

vars == <<variant, pool, redisPool, tokens, issued, issues, uploads, handout, uploaded, probe,
          revokes, channel>>

(***************************************************************************)
(* Bounds of the model                                                     *)
(***************************************************************************)
NumCallers == 7          \* concurrent popPoolItemWithRetry calls
MaxPool == 6             \* rows in pool_items at the start of the race
MaxStock == 2            \* entries stored before a concurrent run starts
MaxRequests == 2         \* /link and /upload requests of a concurrent run
SeqMaxRequests == 6      \* /link and /upload requests of a sequential run
NumUsers == 2            \* actors; ADMIN_IDS is a subset
NumTokens == 2           \* values genToken can return
MaxTime == 1             \* values of Date.now()
MaxLen == 5              \* length of the strings given to the parsers
MaxLedger == 1           \* links issued before a run with revocations starts
MaxClock == 2            \* values of the clock read by a revocation
MaxBatches == 2          \* full batches of the largest upload of a batch run
RetryCallers == 6        \* concurrent calls of a run about the retry loop
RetryPool == 5           \* rows in pool_items at the start of that run
MaxText == 5             \* characters of the text of an upload
MaxEnv == 4              \* characters of the value of ADMIN_IDS

\* a loop that runs once more: for (let i = 0; i <= tries; i++)
TriesAndOne == 5 + 1

\* `tries = 5`, the default of popPoolItemWithRetry, used by its only caller
Tries == 5

(***************************************************************************)
(* Strings are sequences of one-character strings                          *)
(***************************************************************************)
Colon == ":"
Space == " "

Alphabet == {"a", "b", Colon}

\* JavaScript null / no row
Null == [id |-> 0, value |-> <<>>]

\* JavaScript undefined, as a field of a stored record
Undefined == <<"undefined">>

NoToken == 0

TokenIds == 1..NumTokens
Times == 1..MaxTime
Users == 1..NumUsers

\* ADMIN_IDS of the deployment
ADMIN_IDS == {1}

isAdmin(u) == u \in ADMIN_IDS

Min(S) == CHOOSE x \in S : \A y \in S : x <= y

HasColon(s) == \E i \in 1..Len(s) : s[i] = Colon

\* s.split(":")
RECURSIVE Split(_)
Split(s) ==
    IF ~HasColon(s) THEN <<s>>
    ELSE LET i == Min({j \in 1..Len(s) : s[j] = Colon})
         IN <<SubSeq(s, 1, i - 1)>> \o Split(SubSeq(s, i + 1, Len(s)))

\* parts.join(":")
RECURSIVE Join(_)
Join(parts) ==
    IF Len(parts) = 0 THEN <<>>
    ELSE IF Len(parts) = 1 THEN parts[1]
    ELSE parts[1] \o <<Colon>> \o Join(Tail(parts))

\* `user_${Date.now()}`
Placeholder(now) == <<"user_", ToString(now)>>

\* a split that keeps only the second part as the key
parseLoginKeySecondPart(line, now) ==
    LET s == line
        parts == Split(s)
    IN IF Len(parts) >= 2
       THEN [login |-> Head(parts), key |-> parts[2]]
       ELSE [login |-> Placeholder(now), key |-> s]

\* function parseLoginKey(line)
parseLoginKey(line, now) ==
    LET s == line
        parts == Split(s)
    IN IF Len(parts) >= 2
       THEN [login |-> Head(parts), key |-> Join(Tail(parts))]
       ELSE [login |-> Placeholder(now), key |-> s]

\* the inline parse of issueLinkForUser in the Redis variant
redisParse(itm, now) ==
    LET s == itm
        parts == Split(s)
    IN IF Len(parts) >= 2
       THEN [login |-> Head(parts), key |-> Join(Tail(parts))]
       ELSE [login |-> Placeholder(now), key |-> s]

\* the inline parse of issueLink in the two-request variant
issueLinkParse(raw, now) ==
    LET parts == Split(raw)
        login == IF Len(parts) >= 2 THEN Head(parts) ELSE Placeholder(now)
        rest == IF Len(parts) >= 2 THEN Tail(parts) ELSE parts
        key == IF Len(rest) >= 1 THEN Join(rest) ELSE raw
    IN [login |-> login, key |-> key]

\* const [login, key] = item.value.split(":") of the minimal variant
minimalParse(value) ==
    LET parts == Split(value)
    IN [login |-> parts[1],
        key |-> IF Len(parts) >= 2 THEN parts[2] ELSE Undefined]

\* l.trim()
RECURSIVE Trim(_)
Trim(l) ==
    IF l = <<>> THEN l
    ELSE IF Head(l) = Space THEN Trim(Tail(l))
    ELSE IF l[Len(l)] = Space THEN Trim(SubSeq(l, 1, Len(l) - 1))
    ELSE l

\* the lines trimmed, the empty ones kept
TrimmedLines(raw) == [k \in 1..Len(raw) |-> Trim(raw[k])]

\* text.split(/\r?\n/).map((l) => l.trim()).filter(Boolean), on the raw lines
RECURSIVE UsableLines(_)
UsableLines(raw) ==
    IF raw = <<>> THEN <<>>
    ELSE IF Trim(Head(raw)) = <<>> THEN UsableLines(Tail(raw))
    ELSE <<Trim(Head(raw))>> \o UsableLines(Tail(raw))

LineA == <<"a", Colon, "b">>
LineB == <<"a", Colon, "b", Colon, "c">>
LineC == <<"b">>

\* the sample line stored in row k of an initial pool
LineOf(k) == IF k % 3 = 1 THEN LineA ELSE IF k % 3 = 2 THEN LineB ELSE LineC

\* message bodies sent with /upload, as raw lines
UploadTexts ==
    { <<LineA, LineB, LineC>>,
      <<<<>>, <<Space, "b", Space>>>>,
      <<<<Space>>, <<>>>> }

(***************************************************************************)
(* Bags of requests                                                        *)
(***************************************************************************)
Replace(B, old, new) == (B (-) SetToBag({old})) (+) SetToBag({new})

Requests(B) == BagToSet(B)

\* number of requests of B that satisfy Test
CountOf(B, Test(_)) ==
    BagCardinality([r \in {q \in BagToSet(B) : Test(q)} |-> B[r]])

(***************************************************************************)
(* Table pool_items                                                        *)
(***************************************************************************)
Row(k, v) == [id |-> k, value |-> v, used |-> FALSE, used_by_id |-> 0, used_at |-> 0]

\* .eq("used", false)
Unused(p) == {k \in 1..Len(p) : ~p[k].used}

\* the select with the order reversed: newest unused row first
SelectNewestUnused(p) ==
    IF Unused(p) = {} THEN {}
    ELSE LET k == CHOOSE x \in Unused(p) : \A y \in Unused(p) : x >= y
         IN {[id |-> k, value |-> p[k].value]}

\* the select without .eq("used", false): oldest row, used or not
SelectOldestRow(p) ==
    IF p = <<>> THEN {} ELSE {[id |-> 1, value |-> p[1].value]}

\* select id,value where used = false order by id asc limit 1
SelectOldestUnused(p) ==
    IF Unused(p) = {} THEN {}
    ELSE {[id |-> Min(Unused(p)), value |-> p[Min(Unused(p))].value]}

\* the update without .eq("used", false): it matches the row whatever its state
UpdateWhereId(p, k) == {j \in {k} : j \in 1..Len(p)}

\* the rows matched by: update ... where id = k and used = false
UpdateWhereUnused(p, k) == {j \in {k} : j \in 1..Len(p) /\ ~p[j].used}

\* new Date().toISOString() of a claim: the clock ticks with every entry
\* handed out, so the writes of two claims carry different times
Now == Len(handout) + 1

\* an update that records the claimer and leaves `used` as it is
MarkOwner(p, k, uid) == [p EXCEPT ![k].used_by_id = uid]

MarkUsed(p, k, uid) ==
    [p EXCEPT ![k].used = TRUE, ![k].used_by_id = uid, ![k].used_at = Now]

(***************************************************************************)
(* Requests                                                                *)
(***************************************************************************)
InClaim(r) == r.pc \in {"select", "update"}

Finished(r) == r.pc = "done"

\* no request is being handled
Quiet ==
    /\ \A r \in Requests(issues) : Finished(r)
    /\ \A r \in Requests(uploads) : Finished(r)
    /\ \A r \in Requests(revokes) : Finished(r)

\* first storage request of an issuance in each variant
FirstStep == [retry |-> "select", twostep |-> "getNext", redis |-> "rpop",
              minimal |-> "single"]

\* a handler that calls genToken before it claims an entry
IssueReqEarlyToken(u, p, start) ==
    [user |-> u, pc |-> start, item |-> Null, round |-> 0, ret |-> Null,
     sawEmpty |-> (Unused(p) = {}), token |-> 1, reply |-> "none"]

IssueReq(u, p, start) ==
    [user |-> u, pc |-> start, item |-> Null, round |-> 0, ret |-> Null,
     sawEmpty |-> (Unused(p) = {}), token |-> NoToken, reply |-> "none"]

UploadReq(u, raw) ==
    [user |-> u, pc |-> "insert", lines |-> UsableLines(raw), i |-> 0,
     inserted |-> 0, n |-> 0, reply |-> "none"]

\* a finished request: the handler has returned and its locals are gone
DoneIssue ==
    [user |-> 0, pc |-> "done", item |-> Null, round |-> 0, ret |-> Null,
     sawEmpty |-> FALSE, token |-> NoToken, reply |-> "none"]

DoneUpload ==
    [user |-> 0, pc |-> "done", lines |-> <<>>, i |-> 0,
     inserted |-> 0, n |-> 0, reply |-> "none"]

\* history: every claim in progress sees the pool as it is after a write
Watch(B, poolAfter) ==
    BagOfAll(LAMBDA r : IF InClaim(r) /\ Unused(poolAfter) = {}
                        THEN [r EXCEPT !.sawEmpty = TRUE] ELSE r, B)

\* a user sends /link (and /start where it issues a link)
StartLink(max) ==
    \E u \in Users :
        /\ BagCardinality(issues) + BagCardinality(uploads) + BagCardinality(revokes) < max
        /\ issues' = issues (+) SetToBag({IssueReq(u, pool, FirstStep[variant])})
        /\ UNCHANGED <<variant, pool, redisPool, tokens, issued, uploads, handout,
                       uploaded, probe,
                       revokes, channel>>

(***************************************************************************)
(* Retry variant: popPoolItemWithRetry(userId, username, tries = 5)        *)
(***************************************************************************)
popPoolItemWithRetrySelect ==
    \E r \in Requests(issues) :
        /\ r.pc = "select"
        /\ LET rows == SelectOldestUnused(pool) IN
            IF rows = {}
            THEN issues' = Replace(issues, r, [r EXCEPT !.pc = "returned", !.ret = Null])
            ELSE issues' = Replace(issues, r,
                              [r EXCEPT !.pc = "update", !.item = CHOOSE x \in rows : TRUE])
        /\ UNCHANGED <<variant, pool, redisPool, tokens, issued, uploads, handout,
                       uploaded, probe,
                       revokes, channel>>

popPoolItemWithRetryUpdate ==
    \E r \in Requests(issues) :
        /\ r.pc = "update"
        /\ LET upd == UpdateWhereUnused(pool, r.item.id) IN
            IF upd # {}
            THEN /\ pool' = MarkUsed(pool, r.item.id, r.user)
                 /\ issues' = Watch(Replace(issues, r,
                        [r EXCEPT !.pc = "returned",
                                  !.ret = [id |-> r.item.id, value |-> pool[r.item.id].value]]),
                        pool')
                 /\ handout' = Append(handout, [id |-> r.item.id, value |-> pool[r.item.id].value])
            ELSE /\ pool' = pool
                 /\ handout' = handout
                 /\ IF r.round + 1 < Tries
                    THEN issues' = Replace(issues, r,
                            [r EXCEPT !.pc = "select", !.round = r.round + 1])
                    ELSE issues' = Replace(issues, r,
                            [r EXCEPT !.pc = "returned", !.round = r.round + 1, !.ret = Null])
        /\ UNCHANGED <<variant, redisPool, tokens, issued, uploads, uploaded, probe,
                       revokes, channel>>

(***************************************************************************)
(* Retry variant: issueLinkForUser and the /link handler                   *)
(***************************************************************************)
\* a record that leaves the owner out
TokenRecordUnowned(t, parsed, u) ==
    [token |-> t, login |-> parsed.login, key |-> parsed.key,
     issued_to_id |-> 0, revoked |-> FALSE, revoked_at |-> 0]

TokenRecord(t, parsed, u) ==
    [token |-> t, login |-> parsed.login, key |-> parsed.key,
     issued_to_id |-> u, revoked |-> FALSE, revoked_at |-> 0]

HasToken(t) == \E rec \in tokens : rec.token = t

\* if (!item) { await ctx.reply(...)
issueLinkForUserEmpty ==
    \E r \in Requests(issues) :
        /\ variant = "retry"
        /\ r.pc = "returned" /\ r.ret = Null
        /\ issues' = Replace(issues, r, [r EXCEPT !.pc = "logEmpty", !.reply = "empty"])
        /\ UNCHANGED <<variant, pool, redisPool, tokens, issued, uploads, handout,
                       uploaded, probe,
                       revokes, channel>>

\* parseLoginKey, genToken, await insertTokenRecord(...)
insertTokenRecord ==
    \E r \in Requests(issues) : \E t \in TokenIds : \E now \in Times :
        /\ variant = "retry"
        /\ r.pc = "returned" /\ r.ret # Null
        /\ IF HasToken(t)
           THEN /\ tokens' = tokens
                /\ issues' = Replace(issues, r, [r EXCEPT !.pc = "caught", !.token = t])
           ELSE /\ tokens' = tokens \cup {TokenRecord(t, parseLoginKey(r.ret.value, now), r.user)}
                /\ issues' = Replace(issues, r, [r EXCEPT !.pc = "reply", !.token = t])
        /\ UNCHANGED <<variant, pool, redisPool, issued, uploads, handout, uploaded, probe,
                       revokes, channel>>

\* await ctx.reply(`Ваша ссылка: ...`)
issueLinkForUserReply ==
    \E r \in Requests(issues) :
        /\ variant = "retry"
        /\ r.pc = "reply"
        /\ issues' = Replace(issues, r, [r EXCEPT !.pc = "logIssued", !.reply = "link"])
        /\ UNCHANGED <<variant, pool, redisPool, tokens, issued, uploads, handout,
                       uploaded, probe,
                       revokes, channel>>

\* a logToChannel that lets the error of a failed delivery out
LogRethrows(failed) == failed

\* try { await fetch(.../sendMessage) } catch (_) {}
LogThrows(failed) == FALSE

\* the delivery fails when the channel does not accept messages
SendFails == channel = "down"

\* await logToChannel(...) at the end of a request
logToChannel ==
    \E r \in Requests(issues) :
        /\ r.pc \in {"logEmpty", "logIssued"}
        /\ issues' = Replace(issues, r,
               IF LogThrows(SendFails) THEN [r EXCEPT !.pc = "caught"] ELSE DoneIssue)
        /\ UNCHANGED <<variant, pool, redisPool, tokens, issued, uploads, handout,
                       uploaded, probe,
                       revokes, channel>>

\* catch (e) of bot.command("link"): log, then reply "Ошибка. Попробуйте позже."
linkCatch ==
    \E r \in Requests(issues) :
        /\ r.pc = "caught"
        /\ issues' = Replace(issues, r, DoneIssue)
        /\ UNCHANGED <<variant, pool, redisPool, tokens, issued, uploads, handout,
                       uploaded, probe,
                       revokes, channel>>

(***************************************************************************)
(* Uploads                                                                 *)
(***************************************************************************)
\* chunkSize of insertPoolItems
ChunkSize == 500

\* a batch cut one line short: lines.slice(i, i + chunkSize - 1)
RowsButLast(p, lines) == [k \in 1..(Len(lines) - 1) |-> Row(Len(p) + k, lines[k])]

Rows(p, lines) == [k \in 1..Len(lines) |-> Row(Len(p) + k, lines[k])]

\* an administrator sends /upload with text or a .txt document;
\* if (!isAdmin(ctx)) return;  if (!lines.length) return ctx.reply(...)
StartUpload(max) ==
    \E u \in Users : \E raw \in UploadTexts :
        /\ isAdmin(u)
        /\ BagCardinality(issues) + BagCardinality(uploads) + BagCardinality(revokes) < max
        /\ uploads' = uploads (+) SetToBag({
               IF UsableLines(raw) = <<>>
               THEN DoneUpload
               ELSE UploadReq(u, raw)})
        /\ UNCHANGED <<variant, pool, redisPool, tokens, issued, issues, handout,
                       uploaded, probe,
                       revokes, channel>>

\* insertPoolItems(lines): one iteration of the batch loop
insertPoolItems ==
    \E r \in Requests(uploads) :
        /\ variant = "retry"
        /\ r.pc = "insert"
        /\ LET last == IF r.i + ChunkSize < Len(r.lines) THEN r.i + ChunkSize ELSE Len(r.lines)
               chunk == SubSeq(r.lines, r.i + 1, last)
           IN /\ pool' = pool \o Rows(pool, chunk)
              /\ uploaded' = uploaded \o chunk
              /\ uploads' = Replace(uploads, r,
                     [r EXCEPT !.i = r.i + ChunkSize,
                               !.inserted = r.inserted + Len(chunk),
                               !.pc = IF r.i + ChunkSize < Len(r.lines) THEN "insert" ELSE "count"])
              /\ issues' = Watch(issues, pool')
        /\ UNCHANGED <<variant, redisPool, tokens, issued, handout, probe,
                       revokes, channel>>

\* const n = await poolCount();
poolCount ==
    \E r \in Requests(uploads) :
        /\ r.pc = "count"
        /\ uploads' = Replace(uploads, r, [r EXCEPT !.pc = "reply", !.n = Cardinality(Unused(pool))])
        /\ UNCHANGED <<variant, pool, redisPool, tokens, issued, issues, handout,
                       uploaded, probe,
                       revokes, channel>>

\* supabase.from("pool_items").insert(rows) of the two-request and minimal variants
insertRows ==
    \E r \in Requests(uploads) :
        /\ variant \in {"twostep", "minimal"}
        /\ r.pc = "insert"
        /\ pool' = pool \o Rows(pool, r.lines)
        /\ uploaded' = uploaded \o r.lines
        /\ uploads' = Replace(uploads, r,
               [r EXCEPT !.pc = "reply", !.inserted = Len(r.lines), !.i = Len(r.lines)])
        /\ UNCHANGED <<variant, redisPool, tokens, issued, issues, handout, probe,
                       revokes, channel>>

\* a push at the tail of the list (RPUSH)
RPush(list, e) == list \o <<e>>

\* for (const line of lines) await redis(["LPUSH", "pool", line]);
LPush(list, e) == <<e>> \o list

uploadLPush ==
    \E r \in Requests(uploads) :
        /\ variant = "redis"
        /\ r.pc = "insert"
        /\ redisPool' = LPush(redisPool, [id |-> Len(uploaded) + 1, value |-> r.lines[r.i + 1]])
        /\ uploaded' = Append(uploaded, r.lines[r.i + 1])
        /\ uploads' = Replace(uploads, r,
               [r EXCEPT !.i = r.i + 1, !.inserted = r.i + 1,
                         !.pc = IF r.i + 1 < Len(r.lines) THEN "insert" ELSE "reply"])
        /\ UNCHANGED <<variant, pool, tokens, issued, issues, handout, probe,
                       revokes, channel>>

\* await ctx.reply(`Загружено: ...`); await logToChannel(...)
uploadReply ==
    \E r \in Requests(uploads) :
        /\ r.pc = "reply"
        /\ uploads' = Replace(uploads, r,
               IF LogThrows(SendFails) THEN [r EXCEPT !.pc = "caught"] ELSE DoneUpload)
        /\ UNCHANGED <<variant, pool, redisPool, tokens, issued, issues, handout,
                       uploaded, probe,
                       revokes, channel>>

(***************************************************************************)
(* Two-request variants: select the oldest unused row, then update by id   *)
(***************************************************************************)
\* update({ used: true }).eq("id", id)
MarkPoolUsedById(p, k) == [p EXCEPT ![k].used = TRUE]

\* popPoolItem: update({ used: true, used_at: new Date().toISOString() }).eq("id", id)
MarkUsedAtById(p, k) == [p EXCEPT ![k].used = TRUE, ![k].used_at = Now]

\* const item = await getNextPoolItem();
getNextPoolItem ==
    \E r \in Requests(issues) :
        /\ r.pc = "getNext"
        /\ LET rows == SelectOldestUnused(pool) IN
            IF rows = {}
            THEN issues' = Replace(issues, r, [r EXCEPT !.pc = "empty", !.ret = Null])
            ELSE issues' = Replace(issues, r,
                              [r EXCEPT !.pc = "markUsed", !.item = CHOOSE x \in rows : TRUE])
        /\ UNCHANGED <<variant, pool, redisPool, tokens, issued, uploads, handout,
                       uploaded, probe,
                       revokes, channel>>

\* await markPoolUsed(item.id);
markPoolUsed ==
    \E r \in Requests(issues) :
        /\ variant = "twostep"
        /\ r.pc = "markUsed"
        /\ pool' = MarkUsedAtById(pool, r.item.id)
        /\ issues' = Replace(issues, r, [r EXCEPT !.pc = "insertToken", !.ret = r.item])
        /\ handout' = Append(handout, r.item)
        /\ UNCHANGED <<variant, redisPool, tokens, issued, uploads, uploaded, probe,
                       revokes, channel>>

\* parse, genToken, await insertToken({...})
insertToken ==
    \E r \in Requests(issues) : \E t \in TokenIds : \E now \in Times :
        /\ variant = "twostep"
        /\ r.pc = "insertToken"
        /\ IF HasToken(t)
           THEN /\ tokens' = tokens
                /\ issues' = Replace(issues, r, [r EXCEPT !.pc = "caught", !.token = t])
           ELSE /\ tokens' = tokens \cup {TokenRecord(t, issueLinkParse(r.item.value, now), r.user)}
                /\ issues' = Replace(issues, r, [r EXCEPT !.pc = "reply", !.token = t])
        /\ UNCHANGED <<variant, pool, redisPool, issued, uploads, handout, uploaded, probe,
                       revokes, channel>>

\* if (!item) { await ctx.reply("Нет доступов ...")
issueLinkEmpty ==
    \E r \in Requests(issues) :
        /\ r.pc = "empty"
        /\ issues' = Replace(issues, r,
               IF variant = "minimal" THEN DoneIssue
               ELSE [r EXCEPT !.pc = "logEmpty", !.reply = "empty"])
        /\ UNCHANGED <<variant, pool, redisPool, tokens, issued, uploads, handout,
                       uploaded, probe,
                       revokes, channel>>

\* await ctx.reply(`Ваша ссылка: ...`)
issueLinkReply ==
    \E r \in Requests(issues) :
        /\ variant # "retry"
        /\ r.pc = "reply"
        /\ issues' = Replace(issues, r,
               IF variant = "minimal" THEN DoneIssue
               ELSE [r EXCEPT !.pc = "logIssued", !.reply = "link"])
        /\ UNCHANGED <<variant, pool, redisPool, tokens, issued, uploads, handout,
                       uploaded, probe,
                       revokes, channel>>

(***************************************************************************)
(* Redis variant: issueLinkForUser                                         *)
(***************************************************************************)
\* LTRIM issued 0 49 keeps 50 elements
IssuedKept == 50

\* a read of the tail that leaves the list as it is (LINDEX -1)
KeepList(list) == list

\* RPOP: the removed element and the remaining list
RPopItem(list) == list[Len(list)]
RPopRest(list) == SubSeq(list, 1, Len(list) - 1)

\* const item = await redis(["RPOP", "pool"]);
redisRPop ==
    \E r \in Requests(issues) :
        /\ r.pc = "rpop"
        /\ IF redisPool = <<>>
           THEN /\ issues' = Replace(issues, r, [r EXCEPT !.pc = "empty", !.ret = Null])
                /\ UNCHANGED <<redisPool, handout>>
           ELSE /\ issues' = Replace(issues, r,
                       [r EXCEPT !.pc = "save", !.item = RPopItem(redisPool),
                                 !.ret = RPopItem(redisPool)])
                /\ redisPool' = RPopRest(redisPool)
                /\ handout' = Append(handout, RPopItem(redisPool))
        /\ UNCHANGED <<variant, pool, tokens, issued, uploads, uploaded, probe,
                       revokes, channel>>

\* parse, genToken, await saveTokenRecord(token, record): SET token:<token>
saveTokenRecord ==
    \E r \in Requests(issues) : \E t \in TokenIds : \E now \in Times :
        /\ r.pc = "save"
        /\ tokens' = {rec \in tokens : rec.token # t}
                        \cup {TokenRecord(t, redisParse(r.item.value, now), r.user)}
        /\ issues' = Replace(issues, r, [r EXCEPT !.pc = "lpush", !.token = t])
        /\ UNCHANGED <<variant, pool, redisPool, issued, uploads, handout, uploaded, probe,
                       revokes, channel>>

\* redis(["SET", ...]) throws (!resp.ok || data.error): nothing is stored and
\* the error leaves issueLinkForUser for bot.catch
saveTokenRecordFails ==
    \E r \in Requests(issues) :
        /\ variant = "redis"
        /\ r.pc = "save"
        /\ issues' = Replace(issues, r, [r EXCEPT !.pc = "caught"])
        /\ UNCHANGED <<variant, pool, redisPool, tokens, issued, uploads, handout,
                       uploaded, probe, revokes, channel>>

\* pushIssued: await redis(["LPUSH", "issued", token]);
pushIssuedLPush ==
    \E r \in Requests(issues) :
        /\ r.pc = "lpush"
        /\ issued' = LPush(issued, r.token)
        /\ issues' = Replace(issues, r, [r EXCEPT !.pc = "ltrim"])
        /\ UNCHANGED <<variant, pool, redisPool, tokens, uploads, handout, uploaded, probe,
                       revokes, channel>>

\* pushIssued: await redis(["LTRIM", "issued", 0, 49]);
pushIssuedLTrim ==
    \E r \in Requests(issues) :
        /\ r.pc = "ltrim"
        /\ issued' = IF Len(issued) > IssuedKept THEN SubSeq(issued, 1, IssuedKept) ELSE issued
        /\ issues' = Replace(issues, r, [r EXCEPT !.pc = "reply"])
        /\ UNCHANGED <<variant, pool, redisPool, tokens, uploads, handout, uploaded, probe,
                       revokes, channel>>

(***************************************************************************)
(* Minimal variant: issueLink                                              *)
(***************************************************************************)
\* select("*").eq("used", false).limit(1).single(): some unused row, no order
minimalSelect ==
    \E r \in Requests(issues) :
        /\ r.pc = "single"
        /\ IF Unused(pool) = {}
           THEN issues' = Replace(issues, r, [r EXCEPT !.pc = "empty", !.ret = Null])
           ELSE \E k \in Unused(pool) :
                    issues' = Replace(issues, r,
                        [r EXCEPT !.pc = "markUsed", !.item = [id |-> k, value |-> pool[k].value]])
        /\ UNCHANGED <<variant, pool, redisPool, tokens, issued, uploads, handout,
                       uploaded, probe,
                       revokes, channel>>

\* update({ used: true }).eq("id", item.id)
minimalUpdate ==
    \E r \in Requests(issues) :
        /\ variant = "minimal"
        /\ r.pc = "markUsed"
        /\ pool' = MarkPoolUsedById(pool, r.item.id)
        /\ issues' = Replace(issues, r, [r EXCEPT !.pc = "insertToken", !.ret = r.item])
        /\ handout' = Append(handout, r.item)
        /\ UNCHANGED <<variant, redisPool, tokens, issued, uploads, uploaded, probe,
                       revokes, channel>>

\* const [login, key] = item.value.split(":"); insert, its error ignored
minimalInsert ==
    \E r \in Requests(issues) : \E t \in TokenIds :
        /\ variant = "minimal"
        /\ r.pc = "insertToken"
        /\ tokens' = IF HasToken(t) THEN tokens
                     ELSE tokens \cup {TokenRecord(t, minimalParse(r.item.value), r.user)}
        /\ issues' = Replace(issues, r, [r EXCEPT !.pc = "reply", !.token = t])
        /\ UNCHANGED <<variant, pool, redisPool, issued, uploads, handout, uploaded, probe,
                       revokes, channel>>

(***************************************************************************)
(* Revocation: /revoke <token> and the "del|" / "revoke:" callback         *)
(***************************************************************************)
Clock == 1..MaxClock

NoRecord == [token |-> NoToken]

\* a patch that flips the flag instead of setting it
TogglePatch(rec, now) == [rec EXCEPT !.revoked = ~rec.revoked, !.revoked_at = now]

\* { revoked: true, revoked_at: new Date().toISOString() }
RevokePatch(rec, now) == [rec EXCEPT !.revoked = TRUE, !.revoked_at = now]

\* an upsert: the patch becomes a record when no record has the token
UpsertToken(tk, t, now) ==
    IF \E rec \in tk : rec.token = t
    THEN {IF rec.token = t THEN RevokePatch(rec, now) ELSE rec : rec \in tk}
    ELSE tk \cup {[token |-> t, login |-> <<>>, key |-> <<>>, issued_to_id |-> 0,
                   revoked |-> TRUE, revoked_at |-> now]}

\* .from("tokens").update(patch).eq("token", token)
UpdateToken(tk, t, now) ==
    {IF rec.token = t THEN RevokePatch(rec, now) ELSE rec : rec \in tk}

\* SET token:<token> with the record read before
SetToken(tk, t, rec) == {x \in tk : x.token # t} \cup {rec}

GetToken(tk, t) == IF \E rec \in tk : rec.token = t
                   THEN CHOOSE rec \in tk : rec.token = t
                   ELSE NoRecord

\* first storage request of a revocation in each variant
FirstRevokeStep == [retry |-> "update", twostep |-> "get", redis |-> "get"]

RevokeReq(u, t) ==
    [user |-> u, token |-> t, pc |-> FirstRevokeStep[variant],
     rec |-> NoRecord, again |-> FALSE]

DoneRevoke ==
    [user |-> 0, token |-> NoToken, pc |-> "done", rec |-> NoRecord, again |-> FALSE]

\* anyone passes the check
isAnyone(u) == TRUE

\* if (!isAdmin(ctx)) return;  /  return ctx.answerCbQuery("Нет доступа.")
Allowed(u) == isAdmin(u)

\* an actor sends /revoke <token> or presses the button of a link
StartRevoke(max) ==
    \E u \in Users : \E t \in TokenIds : \E via \in {"command", "callback"} :
        /\ variant # "minimal"
        /\ BagCardinality(issues) + BagCardinality(uploads) + BagCardinality(revokes) < max
        /\ revokes' = revokes (+) SetToBag({
               IF Allowed(u) THEN RevokeReq(u, t)
               ELSE IF via = "callback"
                    THEN [RevokeReq(u, t) EXCEPT !.pc = "denied"]
                    ELSE DoneRevoke})
        /\ UNCHANGED <<variant, pool, redisPool, tokens, issued, issues, uploads, handout,
                       uploaded, probe, channel>>

\* return ctx.answerCbQuery("Нет доступа.", { show_alert: true });
revokeDenied ==
    \E r \in Requests(revokes) :
        /\ r.pc = "denied"
        /\ revokes' = Replace(revokes, r, DoneRevoke)
        /\ UNCHANGED <<variant, pool, redisPool, tokens, issued, issues, uploads, handout,
                       uploaded, probe, channel>>

\* const rec = await getToken(token);  /  await getTokenRecord(token);
getToken ==
    \E r \in Requests(revokes) :
        /\ r.pc = "get"
        /\ LET rec == GetToken(tokens, r.token) IN
            revokes' = Replace(revokes, r,
                IF rec = NoRecord THEN [r EXCEPT !.pc = "notFound"]
                ELSE IF variant = "redis" THEN [r EXCEPT !.pc = "set", !.rec = rec]
                ELSE [r EXCEPT !.pc = "update"])
        /\ UNCHANGED <<variant, pool, redisPool, tokens, issued, issues, uploads, handout,
                       uploaded, probe, channel>>

\* revokeToken(token, by): the update of the tokens table
revokeToken ==
    \E r \in Requests(revokes) : \E now \in Clock :
        /\ r.pc = "update"
        /\ tokens' = UpdateToken(tokens, r.token, now)
        /\ revokes' = Replace(revokes, r,
               IF HasToken(r.token) \/ variant = "twostep"
               THEN [r EXCEPT !.pc = "reply",
                              !.again = \E rec \in tokens : rec.token = r.token /\ rec.revoked]
               ELSE [r EXCEPT !.pc = "notFound"])
        /\ UNCHANGED <<variant, pool, redisPool, issued, issues, uploads, handout,
                       uploaded, probe, channel>>

\* rec.revoked = true; rec.revoked_at = Date.now(); await saveTokenRecord(token, rec);
revokeSet ==
    \E r \in Requests(revokes) : \E now \in Clock :
        /\ r.pc = "set"
        /\ tokens' = SetToken(tokens, r.token, RevokePatch(r.rec, now))
        /\ revokes' = Replace(revokes, r,
               [r EXCEPT !.pc = "reply", !.rec = NoRecord,
                         !.again = \E rec \in tokens : rec.token = r.token /\ rec.revoked])
        /\ UNCHANGED <<variant, pool, redisPool, issued, issues, uploads, handout,
                       uploaded, probe, channel>>

\* await ctx.reply("Ок. ...") and await logToChannel("[REVOKE] ..."), or
\* await logToChannel("[DELETE] ...") and return ctx.answerCbQuery("Ссылка отключена.")
revokeReply ==
    \E r \in Requests(revokes) :
        /\ r.pc = "reply"
        /\ revokes' = Replace(revokes, r,
               IF LogThrows(SendFails) THEN [r EXCEPT !.pc = "caught"] ELSE DoneRevoke)
        /\ UNCHANGED <<variant, pool, redisPool, tokens, issued, issues, uploads, handout,
                       uploaded, probe, channel>>

\* if (!rec) return ctx.reply("Токен не найден.");
revokeNotFound ==
    \E r \in Requests(revokes) :
        /\ r.pc = "notFound"
        /\ revokes' = Replace(revokes, r, DoneRevoke)
        /\ UNCHANGED <<variant, pool, redisPool, tokens, issued, issues, uploads, handout,
                       uploaded, probe, channel>>

StepsRevoke ==
    \/ revokeDenied
    \/ getToken
    \/ revokeToken
    \/ revokeSet
    \/ revokeReply
    \/ revokeNotFound

(***************************************************************************)
(* The parsers, applied to every short string                              *)
(***************************************************************************)
Strings == UNION {[1..k -> Alphabet] : k \in 0..MaxLen}

NoProbe == [line |-> <<>>, now |-> 0, by |-> "off", login |-> <<>>, key |-> <<>>]

Parsed(p, by, out) == [p EXCEPT !.by = by, !.login = out.login, !.key = out.key]

runParseLoginKey ==
    /\ probe.by = "none"
    /\ probe' = Parsed(probe, "parseLoginKey", parseLoginKey(probe.line, probe.now))
    /\ UNCHANGED <<variant, pool, redisPool, tokens, issued, issues, uploads, handout, uploaded,
                       revokes, channel>>

runRedisParse ==
    /\ probe.by = "none"
    /\ probe' = Parsed(probe, "redisParse", redisParse(probe.line, probe.now))
    /\ UNCHANGED <<variant, pool, redisPool, tokens, issued, issues, uploads, handout, uploaded,
                       revokes, channel>>

runIssueLinkParse ==
    /\ probe.by = "none"
    /\ probe' = Parsed(probe, "issueLinkParse", issueLinkParse(probe.line, probe.now))
    /\ UNCHANGED <<variant, pool, redisPool, tokens, issued, issues, uploads, handout, uploaded,
                       revokes, channel>>

runMinimalParse ==
    /\ probe.by = "none"
    /\ probe' = Parsed(probe, "minimalParse", minimalParse(probe.line))
    /\ UNCHANGED <<variant, pool, redisPool, tokens, issued, issues, uploads, handout, uploaded,
                       revokes, channel>>

(***************************************************************************)
(* Specifications                                                          *)
(***************************************************************************)
Variants == {"retry", "twostep", "redis", "minimal"}

Fresh ==
    /\ pool = <<>>
    /\ redisPool = <<>>
    /\ tokens = {}
    /\ issued = <<>>
    /\ issues = EmptyBag
    /\ uploads = EmptyBag
    /\ handout = <<>>
    /\ uploaded = <<>>
    /\ probe = NoProbe
    /\ revokes = EmptyBag
    /\ channel = "up"

\* steps of handlers that several variants share
StepsShared ==
    \/ logToChannel
    \/ uploadReply
    \/ issueLinkEmpty
    \/ issueLinkReply

StepsRetry ==
    \/ popPoolItemWithRetrySelect
    \/ popPoolItemWithRetryUpdate
    \/ issueLinkForUserEmpty
    \/ insertTokenRecord
    \/ issueLinkForUserReply
    \/ linkCatch
    \/ insertPoolItems
    \/ poolCount

StepsTwoStep ==
    \/ getNextPoolItem
    \/ markPoolUsed
    \/ insertToken
    \/ insertRows

StepsRedis ==
    \/ redisRPop
    \/ saveTokenRecord
    \/ pushIssuedLPush
    \/ pushIssuedLTrim
    \/ uploadLPush

StepsMinimal ==
    \/ minimalSelect
    \/ minimalUpdate
    \/ minimalInsert

Steps ==
    \/ StepsShared
    \/ StepsRetry
    \/ StepsTwoStep
    \/ StepsRedis
    \/ StepsMinimal

\* the Redis list after the lines LineOf(1) .. LineOf(m) were pushed in turn
RECURSIVE PushedLines(_)
PushedLines(m) ==
    IF m = 0 THEN <<>>
    ELSE LPush(PushedLines(m - 1), [id |-> m, value |-> LineOf(m)])

\* earlier uploads have stored m lines, none of them handed out yet
Stocked(m) ==
    /\ pool = IF variant = "redis" THEN <<>> ELSE [k \in 1..m |-> Row(k, LineOf(k))]
    /\ redisPool = IF variant = "redis" THEN PushedLines(m) ELSE <<>>
    /\ tokens = {}
    /\ issued = <<>>
    /\ issues = EmptyBag
    /\ uploads = EmptyBag
    /\ handout = <<>>
    /\ uploaded = [k \in 1..m |-> LineOf(k)]
    /\ probe = NoProbe
    /\ revokes = EmptyBag
    /\ channel = "up"

\* requests of any kind arrive at any time and interleave at every await
Init == variant \in Variants /\ \E m \in 0..MaxStock : Stocked(m)

Next ==
    \/ StartLink(MaxRequests)
    \/ StartUpload(MaxRequests)
    \/ Steps

Spec == Init /\ [][Next]_vars

\* the variants whose claim names the row it takes (order by id, RPOP);
\* the select of the minimal variant has no order
OrderedVariants == {"retry", "twostep", "redis"}

\* one request at a time: a request arrives only when none is being handled
InitSeq == variant \in OrderedVariants /\ Fresh

NextSeq ==
    \/ Quiet /\ StartLink(SeqMaxRequests)
    \/ Quiet /\ StartUpload(SeqMaxRequests)
    \/ StepsShared
    \/ StepsRetry
    \/ StepsTwoStep
    \/ StepsRedis

SpecSeq == InitSeq /\ [][NextSeq]_vars

\* N concurrent calls of popPoolItemWithRetry against M unclaimed rows
InitRace ==
    /\ variant = "retry"
    /\ \E m \in 0..MaxPool : pool = [k \in 1..m |-> Row(k, LineOf(k))]
    /\ redisPool = <<>>
    /\ tokens = {}
    /\ issued = <<>>
    /\ issues = [r \in {IssueReq(1, pool, "select")} |-> NumCallers]
    /\ uploads = EmptyBag
    /\ handout = <<>>
    /\ uploaded = [k \in 1..Len(pool) |-> LineOf(k)]
    /\ probe = NoProbe
    /\ revokes = EmptyBag
    /\ channel = "up"

NextRace ==
    \/ popPoolItemWithRetrySelect
    \/ popPoolItemWithRetryUpdate

SpecRace == InitRace /\ [][NextRace]_vars

\* the variants that have a revocation
LedgerVariants == {"retry", "twostep", "redis"}

\* the parse of an issuance in the deployed variant
VariantParse(value, now) ==
    IF variant = "retry" THEN parseLoginKey(value, now)
    ELSE IF variant = "twostep" THEN issueLinkParse(value, now)
    ELSE redisParse(value, now)

\* earlier requests have stored m lines and issued the first k of them,
\* line j with token j to the same user
Ledgered(m, k, owner) ==
    /\ pool = IF variant = "redis" THEN <<>>
              ELSE [j \in 1..m |->
                      IF j <= k
                      THEN [Row(j, LineOf(j)) EXCEPT
                               !.used = TRUE,
                               !.used_by_id = IF variant = "retry" THEN owner ELSE 0,
                               !.used_at = j]
                      ELSE Row(j, LineOf(j))]
    /\ redisPool = IF variant = "redis" THEN SubSeq(PushedLines(m), 1, m - k) ELSE <<>>
    /\ tokens = {TokenRecord(j, VariantParse(LineOf(j), 1), owner) : j \in 1..k}
    /\ issued = IF variant = "redis" THEN [i \in 1..k |-> k + 1 - i] ELSE <<>>
    /\ issues = EmptyBag
    /\ uploads = EmptyBag
    /\ revokes = EmptyBag
    /\ handout = [j \in 1..k |-> [id |-> j, value |-> LineOf(j)]]
    /\ uploaded = [j \in 1..m |-> LineOf(j)]
    /\ probe = NoProbe

\* a user outside the allow-list, the owner of the links issued before the run
Owner == CHOOSE u \in Users : ~isAdmin(u)

\* issuances and revocations arrive at any time and interleave at every await;
\* the pool holds one unclaimed line at most when the run starts
InitLedger ==
    /\ variant \in LedgerVariants
    /\ channel = "up"
    /\ \E m \in 0..MaxStock : \E k \in 0..MaxLedger :
           k <= m /\ m <= k + 1 /\ k <= NumTokens /\ Ledgered(m, k, Owner)

NextLedger ==
    \/ StartLink(MaxRequests)
    \/ StartRevoke(MaxRequests)
    \/ logToChannel
    \/ issueLinkEmpty
    \/ issueLinkReply
    \/ popPoolItemWithRetrySelect
    \/ popPoolItemWithRetryUpdate
    \/ issueLinkForUserEmpty
    \/ insertTokenRecord
    \/ issueLinkForUserReply
    \/ linkCatch
    \/ getNextPoolItem
    \/ markPoolUsed
    \/ insertToken
    \/ redisRPop
    \/ saveTokenRecord
    \/ saveTokenRecordFails
    \/ pushIssuedLPush
    \/ pushIssuedLTrim
    \/ StepsRevoke

SpecLedger == InitLedger /\ [][NextLedger]_vars

\* one request at a time, of any kind, the audit channel reachable or not
InitAudit ==
    /\ variant \in LedgerVariants
    /\ channel \in {"up", "down"}
    /\ \E m \in 0..MaxStock : \E k \in 0..MaxLedger :
           k <= m /\ k <= NumTokens /\ Ledgered(m, k, Owner)

NextAudit ==
    \/ Quiet /\ StartLink(MaxRequests)
    \/ Quiet /\ StartUpload(MaxRequests)
    \/ Quiet /\ StartRevoke(MaxRequests)
    \/ StepsShared
    \/ StepsRetry
    \/ StepsTwoStep
    \/ StepsRedis
    \/ StepsRevoke

SpecAudit == InitAudit /\ [][NextAudit]_vars

\* the parsers on every string of at most MaxLen characters
InitParse ==
    /\ variant = "retry"
    /\ pool = <<>>
    /\ redisPool = <<>>
    /\ tokens = {}
    /\ issued = <<>>
    /\ issues = EmptyBag
    /\ uploads = EmptyBag
    /\ handout = <<>>
    /\ uploaded = <<>>
    /\ revokes = EmptyBag
    /\ channel = "up"
    /\ \E s \in Strings : \E now \in Times :
           probe = [line |-> s, now |-> now, by |-> "none", login |-> <<>>, key |-> <<>>]

NextParse ==
    \/ runParseLoginKey
    \/ runRedisParse
    \/ runIssueLinkParse
    \/ runMinimalParse

SpecParse == InitParse /\ [][NextParse]_vars

(***************************************************************************)
(* Claims about popPoolItemWithRetry                                       *)
(***************************************************************************)
Returned(r) == r.pc = "returned"

Got(r, k) == r.pc # "select" /\ r.pc # "update" /\ r.ret.id = k

AllReturned == \A r \in Requests(issues) : Returned(r)

NoDuplicateIds(list) ==
    \A i \in 1..Len(list) : \A j \in 1..Len(list) : i # j => list[i].id # list[j].id

\* C1: every pool entry is returned by at most one popPoolItemWithRetry call;
\* a row is marked used by exactly the one call that returned it, and a call
\* returns only the row its own conditional update matched.
C1_AtMostOnce ==
    variant = "retry" =>
        /\ NoDuplicateIds(handout)
        /\ \A k \in 1..Len(pool) :
            /\ CountOf(issues, LAMBDA r : Got(r, k)) <= 1
            /\ pool[k].used <=> \E i \in 1..Len(handout) : handout[i].id = k
        /\ \A r \in Requests(issues) :
            r.ret # Null => /\ r.ret.id = r.item.id
                            /\ r.ret.id \in 1..Len(pool)
                            /\ pool[r.ret.id].used
                            /\ pool[r.ret.id].used_by_id = r.user
                            /\ \E i \in 1..Len(handout) : handout[i] = r.ret

\* a call lost the race for the first row and then won a later one
C1_Witness ==
    \E r \in Requests(issues) : \E q \in Requests(issues) :
        /\ Returned(r) /\ r.round >= 1 /\ r.ret.id >= 2
        /\ Returned(q) /\ q.ret.id = 1

\* C2: in the two-request variants no pool entry is handed to two issuance
\* requests, concurrent requests included.
C2_TwoStepAtMostOnce == variant = "twostep" => NoDuplicateIds(handout)

\* C3: with M unclaimed rows and N > M calls, exactly M calls return an entry
\* and the other N - M return null.
C3_ExactlyMSucceed ==
    (AllReturned /\ Len(pool) < NumCallers) =>
        /\ CountOf(issues, LAMBDA r : r.ret # Null) = Len(pool)
        /\ CountOf(issues, LAMBDA r : r.ret = Null) = NumCallers - Len(pool)

\* C4: a call returns null only if the pool held no unclaimed row at some
\* moment during the call.
C4_NullOnlyWhenExhausted ==
    \A r \in Requests(issues) : (Returned(r) /\ r.ret = Null) => r.sawEmpty

(***************************************************************************)
(* Claims about the Redis pool                                             *)
(***************************************************************************)
\* C5: in the Redis variant every pushed line is handed to at most one
\* issuance request, and a line that was handed out is not in the pool.
C5_RedisAtMostOnce ==
    variant = "redis" =>
        /\ NoDuplicateIds(handout)
        /\ NoDuplicateIds(redisPool)
        /\ \A i \in 1..Len(handout) : \A j \in 1..Len(redisPool) :
               handout[i].id # redisPool[j].id
        /\ Len(handout) + Len(redisPool) = Len(uploaded)

\* an issuance took a line while an upload was between two of its LPUSHes
C5_Witness ==
    /\ variant = "redis"
    /\ Len(handout) >= 1
    /\ \E u \in Requests(uploads) : u.pc = "insert" /\ u.i >= 1
    /\ \E r \in Requests(issues) : r.pc = "save"

\* the k-th claim of a run returned the k-th stored line
Fifo ==
    /\ Len(handout) <= Len(uploaded)
    /\ \A i \in 1..Len(handout) : handout[i].id = i /\ handout[i].value = uploaded[i]

\* C6: sequential claims of popPoolItemWithRetry return the entries in
\* ascending insertion id, that is in the order insertPoolItems stored them.
C6_RetryFifo == variant = "retry" => Fifo

\* the three lines of one upload were claimed, in their order
C6_Witness ==
    /\ variant = "retry"
    /\ Len(handout) >= 3
    /\ handout[1].value = LineA /\ handout[2].value = LineB /\ handout[3].value = LineC

\* C7: in the Redis variant sequential issuances hand out the lines in the
\* order they were uploaded, the lines of an earlier upload first.
C7_RedisFifo == variant = "redis" => Fifo

\* lines of two uploads were handed out, the second upload made while lines
\* of the first were still in the pool or already taken
C7_Witness ==
    /\ variant = "redis"
    /\ BagCardinality(uploads) = 2
    /\ Len(uploaded) = 4
    /\ Len(handout) = 4
    /\ handout[1].value = LineA /\ handout[4].value = LineC

(***************************************************************************)
(* Claims about the empty pool                                             *)
(***************************************************************************)
Unclaimed == IF variant = "redis" THEN Len(redisPool) ELSE Cardinality(Unused(pool))

AtClaim(r) == r.pc \in {"select", "getNext", "rpop", "single"}

ReturnedNull(r) == r.pc = "returned" /\ r.ret = Null

OnEmptyPath(r) == r.pc \in {"empty", "logEmpty"} \/ ReturnedNull(r)

\* a request sent its select / RPOP in this step
ClaimStep == CountOf(issues', AtClaim) < CountOf(issues, AtClaim)

\* a request that had found no entry took its next step
EmptyPathStep ==
    \/ CountOf(issues', LAMBDA r : r.pc = "empty") < CountOf(issues, LAMBDA r : r.pc = "empty")
    \/ CountOf(issues', LAMBDA r : r.pc = "logEmpty") < CountOf(issues, LAMBDA r : r.pc = "logEmpty")
    \/ CountOf(issues', ReturnedNull) < CountOf(issues, ReturnedNull)

\* C8: an issuance that claims while no entry is unclaimed ends in EMPTY, and
\* neither its claim nor any later step of it creates or changes a pool entry
\* or a Token record.
C8_EmptyNoMutation ==
    [][ /\ (Unclaimed = 0 /\ ClaimStep) =>
              /\ CountOf(issues', OnEmptyPath) = CountOf(issues, OnEmptyPath) + 1
              /\ UNCHANGED <<pool, redisPool, tokens, issued>>
        /\ EmptyPathStep =>
              /\ \/ CountOf(issues', OnEmptyPath) = CountOf(issues, OnEmptyPath)
                 \/ /\ CountOf(issues', OnEmptyPath) = CountOf(issues, OnEmptyPath) - 1
                    /\ CountOf(issues', Finished) = CountOf(issues, Finished) + 1
              /\ UNCHANGED <<pool, redisPool, tokens, issued>>
      ]_vars

\* a request was told that no credentials are left, every stored row being used
C8_Witness ==
    /\ variant = "retry"
    /\ Len(pool) >= 1 /\ Unused(pool) = {}
    /\ \E r \in Requests(issues) : r.pc = "logEmpty" /\ r.reply = "empty"

(***************************************************************************)
(* Claims about the parsers                                                *)
(***************************************************************************)
FirstColonAt(s, i) == s[i] = Colon /\ \A j \in 1..(i - 1) : s[j] # Colon

\* login is the text before the first colon and key everything after it; a
\* value without a colon is the key, whole
FirstColonRule(value, login, key) ==
    IF \E i \in 1..Len(value) : value[i] = Colon
    THEN \E i \in 1..Len(value) :
            /\ FirstColonAt(value, i)
            /\ login = SubSeq(value, 1, i - 1)
            /\ key = SubSeq(value, i + 1, Len(value))
    ELSE key = value

\* C9: parseLoginKey and the inline parse of the Redis variant split at the
\* first colon only; without a colon the value is the key and the login is
\* the placeholder user_<timestamp>.
C9_FirstColonSplit ==
    probe.by \in {"parseLoginKey", "redisParse"} =>
        /\ FirstColonRule(probe.line, probe.login, probe.key)
        /\ ~(\E i \in 1..Len(probe.line) : probe.line[i] = Colon) =>
               /\ Len(probe.login) = 2
               /\ probe.login[1] = "user_"
               /\ probe.login[2] = ToString(probe.now)

\* parseLoginKey was given a value with two colons
C9_Witness ==
    /\ probe.by = "parseLoginKey"
    /\ probe.line = <<"a", Colon, "b", Colon, "a">>
    /\ probe.key = <<"b", Colon, "a">>

\* C10: every Token record stored by the minimal variant holds the login and
\* the secret of a claimed pool entry, split at the first colon only.
C10_MinimalFirstSeparator ==
    variant = "minimal" =>
        \A rec \in tokens : \E k \in 1..Len(pool) :
            pool[k].used /\ FirstColonRule(pool[k].value, rec.login, rec.key)

(***************************************************************************)
(* Claims about revocation and the Token records                           *)
(***************************************************************************)
\* request r took a step
Moved(B, r) == CopiesIn(r, B') < CopiesIn(r, B)

\* request q came to be in this step
Arrived(B, q) == CopiesIn(q, B') > CopiesIn(q, B)

AtWrite(r) == r.pc \in {"update", "set"}

Revoked(tk, t) == \E rec \in tk : rec.token = t /\ rec.revoked

\* C11: the revocation of an existing token by an administrator, the token
\* already revoked or not, leaves its record with revoked = true and goes on
\* to the confirmation, never to an error or to "not found".
C11_RevokeTwice ==
    [][ \A r \in Requests(revokes) :
          (AtWrite(r) /\ Moved(revokes, r) /\ HasToken(r.token)) =>
              /\ Revoked(tokens', r.token)
              /\ \E q \in Requests(revokes') :
                    /\ Arrived(revokes, q)
                    /\ q.pc = "reply" /\ q.token = r.token /\ q.user = r.user
                    /\ q.again = Revoked(tokens, r.token)
      ]_vars

\* the second revocation of a token has written and is about to confirm
C11_Witness ==
    \E r \in Requests(revokes) :
        r.pc = "reply" /\ r.again /\ isAdmin(r.user) /\ Revoked(tokens, r.token)

\* C12: a revoke request never changes the revoked_at of a token that is
\* already revoked.
C12_RevokedAtKept ==
    [][ revokes' # revokes =>
          \A rec \in tokens : \A rec2 \in tokens' :
              (rec.revoked /\ rec2.token = rec.token) => rec2.revoked_at = rec.revoked_at
      ]_vars

\* C13: a step of an issuance never replaces a Token record that exists: the
\* store of a record whose token is taken fails.
C13_StoreFailsOnTakenToken ==
    [][ issues' # issues => tokens \subseteq tokens' ]_vars

\* C14: a token that is revoked stays revoked in every step.
C14_RevokedForever ==
    [][ \A rec \in tokens : rec.revoked => Revoked(tokens', rec.token) ]_vars

\* C15: every step keeps the login, key and owner of every Token record.
C15_CredentialsImmutable ==
    [][ \A rec \in tokens : \E rec2 \in tokens' :
            /\ rec2.token = rec.token
            /\ rec2.login = rec.login
            /\ rec2.key = rec.key
            /\ rec2.issued_to_id = rec.issued_to_id
      ]_vars

\* C16: no step of a revoke request of an actor outside ADMIN_IDS changes a
\* Token record, and a token becomes revoked only in the write of a revoke
\* request of an actor in ADMIN_IDS.
C16_OnlyAdminsRevoke ==
    [][ /\ \A r \in Requests(revokes) :
              (Moved(revokes, r) /\ r.user \in Users /\ ~isAdmin(r.user)) =>
                  /\ tokens' = tokens
                  /\ r.pc = "denied"
        /\ revokes' # revokes =>
              \A q \in Requests(revokes') :
                  (Arrived(revokes, q) /\ q.user \in Users /\ ~isAdmin(q.user)) =>
                      q.pc = "denied"
        /\ \A t \in TokenIds :
              (Revoked(tokens', t) /\ HasToken(t) /\ ~Revoked(tokens, t)) =>
                  \E r \in Requests(revokes) :
                      /\ AtWrite(r) /\ Moved(revokes, r)
                      /\ r.token = t /\ isAdmin(r.user)
      ]_vars

\* an actor outside ADMIN_IDS pressed the button of an active link and is
\* about to be told "Нет доступа."
C16_Witness ==
    \E r \in Requests(revokes) :
        /\ r.pc = "denied" /\ ~isAdmin(r.user)
        /\ \E rec \in tokens : rec.token = r.token /\ ~rec.revoked

(***************************************************************************)
(* Claims about one issuance                                               *)
(***************************************************************************)
\* the value /stock reports
stock == Cardinality(Unused(pool))

LastHandout == handout[Len(handout)]

\* C17: in a sequential run of the retry variant the claim of an issuance
\* takes the oldest unclaimed entry and lowers the stock by one, no other step
\* of the issuance changes the stock, and the insert of a successful issuance
\* adds exactly one Token record: login and key parsed from that entry, the
\* requester as owner, not revoked.
C17_IssueLowersStockAddsToken ==
    [][ variant = "retry" =>
          /\ handout' # handout =>
                /\ stock' = stock - 1
                /\ Len(handout') = Len(handout) + 1
                /\ handout'[Len(handout')].id = Min(Unused(pool))
                /\ handout'[Len(handout')].value = pool[Min(Unused(pool))].value
          /\ (issues' # issues /\ handout' = handout) => stock' = stock
          /\ tokens' # tokens =>
                \E r \in Requests(issues) : \E rec \in tokens' :
                    /\ Moved(issues, r) /\ r.pc = "returned" /\ r.ret = LastHandout
                    /\ rec \notin tokens
                    /\ tokens' = tokens \cup {rec}
                    /\ \E now \in Times :
                          /\ rec.login = parseLoginKey(r.ret.value, now).login
                          /\ rec.key = parseLoginKey(r.ret.value, now).key
                    /\ rec.issued_to_id = r.user
                    /\ ~rec.revoked
                    /\ \E q \in Requests(issues') :
                          Arrived(issues, q) /\ q.pc = "reply" /\ q.token = rec.token
      ]_vars

\* three lines uploaded, one issuance done: stock 2 and one Token with the
\* login and key of the first line
C17_Witness ==
    /\ variant = "retry"
    /\ Quiet
    /\ uploaded = <<LineA, LineB, LineC>>
    /\ Len(handout) = 1
    /\ stock = 2
    /\ \E u \in Users :
          tokens = {[token |-> 1, login |-> <<"a">>, key |-> <<"b">>,
                     issued_to_id |-> u, revoked |-> FALSE, revoked_at |-> 0]}

AtInsert(r) ==
    \/ variant = "retry" /\ r.pc = "returned" /\ r.ret # Null
    \/ variant \in {"twostep", "minimal"} /\ r.pc = "insertToken"
    \/ variant = "redis" /\ r.pc = "save"

\* C18: an issuance goes on from the store of its Token record towards the
\* reply with the link only if that step left a record with its token and its
\* requester in the ledger.
C18_LinkOnlyAfterStore ==
    [][ \A r \in Requests(issues) : \A q \in Requests(issues') :
          (AtInsert(r) /\ Moved(issues, r) /\ Arrived(issues, q)
             /\ q.pc \in {"reply", "lpush"}) =>
              \E rec \in tokens' : rec.token = q.token /\ rec.issued_to_id = r.user
      ]_vars

\* C19: an insert into the tokens table that the table refuses, the token
\* being taken, sends the request to the handler of errors and its one
\* generic reply.
C19_StorageErrorCaught ==
    [][ \A r \in Requests(issues) : \A q \in Requests(issues') :
          (variant # "redis" /\ AtInsert(r) /\ Moved(issues, r) /\ Arrived(issues, q)
             /\ HasToken(q.token)) =>
              q.pc = "caught"
      ]_vars

(***************************************************************************)
(* Claims about the audit channel                                          *)
(***************************************************************************)
AtLog(r) == r.pc \in {"logEmpty", "logIssued"}

\* C20: a step that sends an audit event leaves pool and ledger as they are
\* and ends the request as it ends when the event is delivered, whether the
\* channel accepts the event or not; the replies of an issuance are sent
\* before its audit event.
C20_AuditNeverFails ==
    [][ /\ \A r \in Requests(issues) :
              (AtLog(r) /\ Moved(issues, r)) =>
                  /\ Arrived(issues, DoneIssue)
                  /\ r.reply \in {"empty", "link"}
                  /\ UNCHANGED <<pool, redisPool, tokens, issued>>
        /\ \A r \in Requests(revokes) :
              (r.pc = "reply" /\ Moved(revokes, r)) =>
                  /\ Arrived(revokes, DoneRevoke)
                  /\ UNCHANGED <<pool, redisPool, tokens, issued>>
        /\ \A r \in Requests(uploads) :
              (r.pc = "reply" /\ Moved(uploads, r)) =>
                  /\ Arrived(uploads, DoneUpload)
                  /\ UNCHANGED <<pool, redisPool, tokens, issued>>
      ]_vars

\* with the channel down an issuance and the revocation of its token are done
C20_Witness ==
    /\ channel = "down"
    /\ Quiet
    /\ DoneIssue \in Requests(issues)
    /\ DoneRevoke \in Requests(revokes)
    /\ \E rec \in tokens : rec.revoked

(***************************************************************************)
(* Uploads of several batches whose storage requests can fail              *)
(***************************************************************************)
\* the usable lines of an upload of n lines
BatchLines(n) == [k \in 1..n |-> LineOf(k)]

BatchUpload(u, n) == [UploadReq(u, <<>>) EXCEPT !.lines = BatchLines(n)]

\* const { error } = await supabase.from("pool_items").insert(chunk);
\* if (error) throw error;   the batch is not stored, `inserted` is lost
insertPoolItemsFails ==
    \E r \in Requests(uploads) :
        /\ variant = "retry"
        /\ r.pc = "insert"
        /\ uploads' = Replace(uploads, r, [r EXCEPT !.pc = "caught"])
        /\ UNCHANGED <<variant, pool, redisPool, tokens, issued, issues, handout,
                       uploaded, probe, revokes, channel>>

\* catch (e) of bot.command("upload"): log the error's message, then reply
\* "Ошибка. Попробуйте позже."
uploadCatch ==
    \E r \in Requests(uploads) :
        /\ r.pc = "caught"
        /\ uploads' = Replace(uploads, r, DoneUpload)
        /\ UNCHANGED <<variant, pool, redisPool, tokens, issued, issues, handout,
                       uploaded, probe, revokes, channel>>

\* one administrator's upload of 1 .. MaxBatches * ChunkSize + 1 usable lines
InitBatch ==
    /\ variant = "retry"
    /\ pool = <<>>
    /\ redisPool = <<>>
    /\ tokens = {}
    /\ issued = <<>>
    /\ issues = EmptyBag
    /\ handout = <<>>
    /\ uploaded = <<>>
    /\ probe = NoProbe
    /\ revokes = EmptyBag
    /\ channel = "up"
    /\ \E u \in ADMIN_IDS : \E n \in 1..(MaxBatches * ChunkSize + 1) :
           uploads = SetToBag({BatchUpload(u, n)})

NextBatch ==
    \/ insertPoolItems
    \/ insertPoolItemsFails
    \/ poolCount
    \/ uploadReply
    \/ uploadCatch

SpecBatch == InitBatch /\ [][NextBatch]_vars

\* C21: an upload that fails has left none of its lines in the pool (its
\* reply carries no count and names no batch, so whatever it stored before
\* the failing batch would stay in the pool unreported), and an upload that
\* reports reports the number of lines it stored, which is all of them
C21_BatchesReportedOrNoneStored ==
    \A r \in Requests(uploads) :
        /\ r.pc = "caught" => r.inserted = 0 /\ pool = <<>>
        /\ r.pc = "reply" => r.inserted = Len(r.lines) /\ Len(pool) = r.inserted

\* a line that survives .trim() and .filter(Boolean)
Usable(l) == l # <<>> /\ Trim(l) = l

\* an upload is answered in the step that receives it
AnsweredAtOnce ==
    /\ BagCardinality(uploads') > BagCardinality(uploads)
    /\ Arrived(uploads, DoneUpload)

\* C22: an upload without a usable line is answered at once and changes
\* neither the pool nor the ledger: every upload that goes on to store has
\* usable lines only, every stored line is usable, and the step that answers
\* an upload at once leaves the storage as it was
C22_BlankUploadNoEffect ==
    /\ [](/\ \A r \in Requests(uploads) :
               ~Finished(r) => r.lines # <<>> /\ \A k \in 1..Len(r.lines) : Usable(r.lines[k])
          /\ \A k \in 1..Len(uploaded) : Usable(uploaded[k])
          /\ \A k \in 1..Len(pool) : Usable(pool[k].value)
          /\ \A k \in 1..Len(redisPool) : Usable(redisPool[k].value))
    /\ [][AnsweredAtOnce => UNCHANGED <<pool, redisPool, tokens, issued, uploaded, handout>>]_vars

\* the first request of a run with empty storage was an upload of blank lines
C22_Witness ==
    /\ DoneUpload \in Requests(uploads)
    /\ BagCardinality(uploads) = 1 /\ issues = EmptyBag /\ revokes = EmptyBag
    /\ uploaded = <<>> /\ pool = <<>> /\ redisPool = <<>> /\ tokens = {}

(***************************************************************************)
(* genToken(len = 10): crypto.randomBytes(n).toString("base64url")         *)
(*                        .replace(/[^a-zA-Z0-9]/g, "").slice(0, len)      *)
(***************************************************************************)
Base64Url ==
    << "A", "B", "C", "D", "E", "F", "G", "H", "I", "J", "K", "L", "M",
       "N", "O", "P", "Q", "R", "S", "T", "U", "V", "W", "X", "Y", "Z",
       "a", "b", "c", "d", "e", "f", "g", "h", "i", "j", "k", "l", "m",
       "n", "o", "p", "q", "r", "s", "t", "u", "v", "w", "x", "y", "z",
       "0", "1", "2", "3", "4", "5", "6", "7", "8", "9", "-", "_" >>

\* [a-zA-Z0-9]
Alnum == {Base64Url[k] : k \in 1..62}

Pow2(e) == IF e = 0 THEN 1 ELSE IF e = 1 THEN 2 ELSE IF e = 2 THEN 4
           ELSE IF e = 3 THEN 8 ELSE IF e = 4 THEN 16 ELSE IF e = 5 THEN 32
           ELSE IF e = 6 THEN 64 ELSE IF e = 7 THEN 128 ELSE IF e = 8 THEN 256
           ELSE IF e = 9 THEN 512 ELSE 1024

\* the k-th group of six bits of the bytes, the last group padded with zeros
Sextet(bytes, k) ==
    LET o == 6 * (k - 1)
        i == (o \div 8) + 1
        w == bytes[i] * 256 + (IF i + 1 <= Len(bytes) THEN bytes[i + 1] ELSE 0)
    IN (w \div Pow2(10 - (o % 8))) % 64

\* buf.toString("base64url"): no padding characters
ToBase64Url(bytes) ==
    [k \in 1..((Len(bytes) * 8 + 5) \div 6) |-> Base64Url[Sextet(bytes, k) + 1]]

IsAlnum(c) == c \in Alnum

\* the length asked of genToken by every caller: genToken(10)
TokenLen == 10

genToken(bytes, len) ==
    LET kept == SelectSeq(ToBase64Url(bytes), IsAlnum)
    IN SubSeq(kept, 1, Min({len, Len(kept)}))

\* the sizes given to crypto.randomBytes by the variants of genToken
ByteCounts == {16, 24}

\* sample values of a random byte
ByteSamples == {0, 105, 190, 239, 251, 255}

\* random bytes: j bytes of one sample value, then bytes of another
RandomBytes(n, j, a, b) == [k \in 1..n |-> IF k <= j THEN a ELSE b]

runGenToken ==
    /\ probe.by = "none"
    /\ probe' = [probe EXCEPT !.by = "genToken", !.key = genToken(probe.line, TokenLen)]
    /\ UNCHANGED <<variant, pool, redisPool, tokens, issued, issues, uploads, handout,
                   uploaded, revokes, channel>>

InitToken ==
    /\ variant = "retry"
    /\ pool = <<>>
    /\ redisPool = <<>>
    /\ tokens = {}
    /\ issued = <<>>
    /\ issues = EmptyBag
    /\ uploads = EmptyBag
    /\ handout = <<>>
    /\ uploaded = <<>>
    /\ revokes = EmptyBag
    /\ channel = "up"
    /\ \E n \in ByteCounts : \E j \in 0..n : \E a \in ByteSamples : \E b \in ByteSamples :
           probe = [line |-> RandomBytes(n, j, a, b), now |-> 0, by |-> "none",
                    login |-> <<>>, key |-> <<>>]

NextToken == runGenToken

SpecToken == InitToken /\ [][NextToken]_vars

\* C23: whatever the random bytes are, genToken(10) returns exactly 10
\* characters, each of them a letter or a digit
C23_TokenTenAlnum ==
    probe.by = "genToken" =>
        /\ Len(probe.key) = TokenLen
        /\ \A k \in 1..Len(probe.key) : IsAlnum(probe.key[k])

(***************************************************************************)
(* /list of the Redis variant                                              *)
(***************************************************************************)
\* the number of tokens /list asks for
ListLimit == 10

\* redis(["LRANGE", "issued", 0, 9])
listTokens == SubSeq(issued, 1, Min({ListLimit, Len(issued)}))

\* the first position of e in a list
Position(list, e) == Min({k \in 1..Len(list) : list[k] = e})

\* issueLinkForUser reads created_at: Date.now() when RPOP has answered, so
\* the records are created in the order of the RPOPs, which `handout` keeps
CreatedBefore(r, q) ==
    Min({k \in 1..Len(handout) : handout[k] = r.item})
        < Min({k \in 1..Len(handout) : handout[k] = q.item})

\* the request has pushed its token on the list "issued"
Listed(r) == r.pc \in {"ltrim", "reply", "logIssued"}

\* C24: /list returns at most 10 tokens, the newest first by created_at, also
\* when issuances ran concurrently: of two tokens in its answer the one created
\* later comes first
C24_ListNewestFirst ==
    variant = "redis" =>
        /\ Len(listTokens) <= ListLimit
        /\ \A r \in Requests(issues) : \A q \in Requests(issues) :
               (/\ Listed(r) /\ Listed(q) /\ r.token # q.token
                /\ CreatedBefore(r, q))
               => Position(listTokens, q.token) < Position(listTokens, r.token)

\* the first storage request of a revocation finds no record of its token
LookupMiss(r) == r.pc = FirstRevokeStep[variant] /\ ~HasToken(r.token)

\* C25: the revocation of a token that has no record is answered 'not found',
\* creates no record and changes no record
C25_RevokeUnknownToken ==
    [][\A r \in Requests(revokes) :
          /\ (LookupMiss(r) /\ Moved(revokes, r))
                => tokens' = tokens /\ Arrived(revokes, [r EXCEPT !.pc = "notFound"])
          /\ (r.pc = "notFound" /\ Moved(revokes, r))
                => tokens' = tokens /\ Arrived(revokes, DoneRevoke)]_vars

\* a revocation found no record of its token while another token has one
C25_Witness ==
    \E r \in Requests(revokes) :
        /\ r.pc = "notFound" /\ ~HasToken(r.token)
        /\ tokens # {}

(***************************************************************************)
(* The retry loop alone: RetryCallers calls, one more than the rounds of a *)
(* call, so that a call can lose every round                               *)
(***************************************************************************)
InitRetry ==
    /\ variant = "retry"
    /\ \E m \in 0..RetryPool : pool = [k \in 1..m |-> Row(k, LineOf(k))]
    /\ redisPool = <<>>
    /\ tokens = {}
    /\ issued = <<>>
    /\ issues = [r \in {IssueReq(1, pool, "select")} |-> RetryCallers]
    /\ uploads = EmptyBag
    /\ handout = <<>>
    /\ uploaded = [k \in 1..Len(pool) |-> LineOf(k)]
    /\ probe = NoProbe
    /\ revokes = EmptyBag
    /\ channel = "up"

NextRetry ==
    \/ popPoolItemWithRetrySelect
    \/ popPoolItemWithRetryUpdate

SpecRetry == InitRetry /\ [][NextRetry]_vars

(***************************************************************************)
(* Claims about the retry loop                                             *)
(***************************************************************************)
\* the number of rounds the retry loop is allowed
RoundLimit == 5

\* rounds a call has started: the failed ones and the one it is in
RoundsStarted(r) == r.round + (IF InClaim(r) THEN 1 ELSE 0)

\* storage requests a call can still make
StepsLeft(r) ==
    IF InClaim(r)
    THEN 2 * (RoundLimit - r.round) - (IF r.pc = "update" THEN 1 ELSE 0)
    ELSE 0

RECURSIVE SumStepsLeft(_, _)
SumStepsLeft(S, B) ==
    IF S = {} THEN 0
    ELSE LET r == CHOOSE x \in S : TRUE
         IN CopiesIn(r, B) * StepsLeft(r) + SumStepsLeft(S \ {r}, B)

Consumed(e) ==
    IF variant = "redis"
    THEN \A k \in 1..Len(redisPool) : redisPool[k].id # e.id
    ELSE pool[e.id].used

\* the request has claimed an entry and its store has failed
StoreFailed(r) == r.pc = "caught" /\ r.ret # Null

\* the step in which a store fails, and the step of the error path after it
FailedStoreStep ==
    \A r \in Requests(issues) :
        /\ (\E q \in Requests(issues') :
               /\ Moved(issues, r) /\ Arrived(issues, q)
               /\ ~StoreFailed(r) /\ StoreFailed(q) /\ q.ret = r.ret)
             => UNCHANGED <<tokens, pool, redisPool, issued>>
        /\ (StoreFailed(r) /\ Moved(issues, r))
             => (UNCHANGED <<tokens, pool, redisPool, issued>> /\ Arrived(issues, DoneIssue))

\* C28: when the store of the Token record fails after a claim, the issuance
\* ends in the error path and the claimed entry stays consumed: the failing
\* step and the error path leave pool and ledger as they are, and an entry
\* handed out is never back in the unclaimed stock nor handed out again
C28_FailedStoreConsumesEntry ==
    /\ [](variant \in {"retry", "redis"} =>
            /\ NoDuplicateIds(handout)
            /\ \A k \in 1..Len(handout) : Consumed(handout[k])
            /\ \A r \in Requests(issues) : StoreFailed(r) => Consumed(r.ret))
    /\ [][(variant \in {"retry", "redis"}) => FailedStoreStep]_vars

\* in the retry variant an insert has failed on a taken token after the claim
C28_Witness ==
    /\ variant = "retry"
    /\ \E r \in Requests(issues) :
           StoreFailed(r) /\ HasToken(r.token) /\ pool[r.ret.id].used

(***************************************************************************)
(* Claims about claimed rows of pool_items                                 *)
(***************************************************************************)
\* C29: the claim metadata of a row (used_at, used_by_id) is written at the
\* claim and never changes afterwards, racing requests included
C29_ClaimMetadataWrittenOnce ==
    [][\A k \in 1..Len(pool) :
          pool[k].used => /\ pool'[k].used_at = pool[k].used_at
                          /\ pool'[k].used_by_id = pool[k].used_by_id]_vars

\* the variants that keep the pool in the table pool_items of Supabase
Supabase == variant \in {"retry", "twostep"}

\* every row stays in the table with its id and value, and a claimed row
\* stays claimed
RowsKept ==
    \A k \in 1..Len(pool) :
        /\ k <= Len(pool')
        /\ pool'[k].id = pool[k].id /\ pool'[k].value = pool[k].value
        /\ pool[k].used => pool'[k].used

\* C30: in the Supabase variants a claimed entry stays stored as a claimed row,
\* is never set back to unclaimed, and no claim that starts after the claiming
\* request has finished returns it: with the requests one after the other no
\* entry is handed out twice
C30_ClaimedStaysClaimed ==
    /\ [](Supabase =>
            /\ NoDuplicateIds(handout)
            /\ \A k \in 1..Len(handout) :
                   /\ handout[k].id \in 1..Len(pool)
                   /\ pool[handout[k].id].used
                   /\ pool[handout[k].id].value = handout[k].value)
    /\ [][Supabase => RowsKept]_vars

\* a request has claimed a row after the request of an earlier claim finished
C30_Witness ==
    /\ variant = "twostep"
    /\ Len(handout) >= 2
    /\ \E r \in Requests(issues) :
           /\ r.pc = "insertToken" /\ r.ret = handout[Len(handout)]
           /\ pool[r.ret.id].used
           /\ \E k \in 1..Len(pool) : k # r.ret.id /\ pool[k].used

(***************************************************************************)
(* Claims about the course of an issuance of the retry variant             *)
(***************************************************************************)
\* the state of the request in the state machine of an issuance
Phase(r) ==
    IF r.pc \in {"select", "update"} THEN "CLAIMING"
    ELSE IF r.pc = "returned" THEN (IF r.ret = Null THEN "EMPTY" ELSE "CLAIMED")
    ELSE IF r.pc = "logEmpty" THEN "EMPTY"
    ELSE IF r.pc \in {"reply", "logIssued"} THEN "TOKEN_ISSUED"
    ELSE IF r.pc = "caught" THEN "LEDGER_FAILED"
    ELSE "DONE"

PhaseSteps ==
    { <<"CLAIMING", "CLAIMING">>, <<"CLAIMING", "EMPTY">>, <<"CLAIMING", "CLAIMED">>,
      <<"CLAIMED", "TOKEN_ISSUED">>, <<"CLAIMED", "LEDGER_FAILED">>,
      <<"EMPTY", "EMPTY">>, <<"TOKEN_ISSUED", "TOKEN_ISSUED">>,
      <<"EMPTY", "DONE">>, <<"TOKEN_ISSUED", "DONE">>, <<"LEDGER_FAILED", "DONE">> }

\* genToken has been called for the request
Generated(r) == r.token # NoToken

\* a step of a request follows the state machine; the token is generated in
\* the step that leaves CLAIMED and kept afterwards, and only that step
\* touches the ledger
IssuanceStep ==
    \A r \in Requests(issues) :
        Moved(issues, r) =>
            \E q \in Requests(issues') :
                /\ Arrived(issues, q)
                /\ <<Phase(r), Phase(q)>> \in PhaseSteps
                /\ Phase(r) = "CLAIMED" => Generated(q)
                /\ (Phase(r) # "CLAIMED" /\ Phase(q) # "DONE") => q.token = r.token
                /\ Phase(r) # "CLAIMED" => tokens' = tokens

InsertReturned(r) == r.pc \in {"count", "reply"}

\* C32: insertPoolItems stores the lines in consecutive batches of at most 500
\* rows; when it returns, the pool holds every input line once and in input
\* order, as unclaimed rows, and the count returned is the number of lines
C32_BatchesInsertEveryLine ==
    /\ [](\A r \in Requests(uploads) :
             InsertReturned(r) =>
                 /\ r.inserted = Len(r.lines)
                 /\ Len(pool) = Len(r.lines)
                 /\ \A k \in 1..Len(pool) :
                        pool[k].value = r.lines[k] /\ pool[k].id = k /\ ~pool[k].used
                 /\ uploaded = r.lines)
    /\ [][/\ Len(pool') - Len(pool) \in 0..ChunkSize
          /\ SubSeq(pool', 1, Len(pool)) = pool]_vars

\* an upload of more than one batch has been stored and counted
C32_Witness ==
    \E r \in Requests(uploads) :
        /\ r.pc = "reply" /\ Len(r.lines) > ChunkSize
        /\ r.inserted = Len(r.lines) /\ Len(pool) = r.inserted

(***************************************************************************)
(* The text of an upload: after /upload in the message, or in a .txt file  *)
(***************************************************************************)
NL == "\n"

\* the command at the start of the message, one symbol of the text
Command == "/upload"

TextAlphabet == {"a", Colon, Space, NL}

Texts == UNION {[1..k -> TextAlphabet] : k \in 0..MaxText}

\* the message an administrator types: the command, white space, the text
InlineMessage(sep, text) == <<Command, sep>> \o text

\* the leading \s* of the pattern
RECURSIVE DropSpace(_)
DropSpace(s) ==
    IF s # <<>> /\ Head(s) \in {Space, NL} THEN DropSpace(Tail(s)) ELSE s

\* the body cut at the first line break: text.split("\n").slice(1).join("\n")
RECURSIVE InlineBodyAfterFirstLine(_)
InlineBodyAfterFirstLine(msg) ==
    IF msg = <<>> THEN <<>>
    ELSE IF Head(msg) = NL THEN Tail(msg)
    ELSE InlineBodyAfterFirstLine(Tail(msg))

\* text.replace(/^\/upload(@\w+)?\s*/i, "")
InlineBody(msg) ==
    IF msg # <<>> /\ Head(msg) = Command THEN DropSpace(Tail(msg)) ELSE msg

\* text.split(/\r?\n/)
RECURSIVE SplitLines(_)
SplitLines(text) ==
    IF \A k \in 1..Len(text) : text[k] # NL THEN <<text>>
    ELSE LET n == Min({k \in 1..Len(text) : text[k] = NL})
         IN <<SubSeq(text, 1, n - 1)>> \o SplitLines(SubSeq(text, n + 1, Len(text)))

\* the handler has the raw lines: reply at once without a usable line, or
\* go on to insert
ReceiveUpload(u, raw) ==
    uploads' = uploads (+) SetToBag({
        IF UsableLines(raw) = <<>> THEN DoneUpload ELSE UploadReq(u, raw)})

\* /upload with the lines in the message
uploadText ==
    \E u \in ADMIN_IDS : \E sep \in {Space, NL} :
        /\ probe.by = "none"
        /\ ReceiveUpload(u, SplitLines(InlineBody(InlineMessage(sep, probe.line))))
        /\ probe' = [probe EXCEPT !.by = "text"]
        /\ UNCHANGED <<variant, pool, redisPool, tokens, issued, issues, handout,
                       uploaded, revokes, channel>>

\* /upload with a .txt document: the text of the file
uploadDocument ==
    \E u \in ADMIN_IDS :
        /\ probe.by = "none"
        /\ ReceiveUpload(u, SplitLines(probe.line))
        /\ probe' = [probe EXCEPT !.by = "document"]
        /\ UNCHANGED <<variant, pool, redisPool, tokens, issued, issues, handout,
                       uploaded, revokes, channel>>

\* one upload of one text, by either way, into an empty pool
InitText ==
    /\ variant \in {"retry", "twostep"}
    /\ pool = <<>>
    /\ redisPool = <<>>
    /\ tokens = {}
    /\ issued = <<>>
    /\ issues = EmptyBag
    /\ uploads = EmptyBag
    /\ handout = <<>>
    /\ uploaded = <<>>
    /\ revokes = EmptyBag
    /\ channel = "up"
    /\ \E text \in Texts :
           probe = [line |-> text, now |-> 0, by |-> "none", login |-> <<>>, key |-> <<>>]

NextText ==
    \/ uploadText
    \/ uploadDocument
    \/ insertPoolItems
    \/ poolCount
    \/ insertRows
    \/ uploadReply

SpecText == InitText /\ [][NextText]_vars

\* the positions that end a line: the line breaks and the end of the text
Breaks(text) == {k \in 1..Len(text) : text[k] = NL} \cup {Len(text) + 1}

\* the line without the spaces around it
Strip(l) ==
    LET ks == {k \in 1..Len(l) : l[k] # Space}
    IN IF ks = {} THEN <<>>
       ELSE SubSeq(l, Min(ks), CHOOSE k \in ks : \A j \in ks : j <= k)

\* the lines of the text from position a + 1 on, stripped, the blank ones left out
RECURSIVE NormalFrom(_, _)
NormalFrom(text, a) ==
    IF a > Len(text) THEN <<>>
    ELSE LET b == Min({k \in Breaks(text) : k > a})
             l == Strip(SubSeq(text, a + 1, b - 1))
         IN (IF l = <<>> THEN <<>> ELSE <<l>>) \o NormalFrom(text, b)

NormalLines(text) == NormalFrom(text, 0)

\* C33: the text of an upload, typed after /upload or sent as a file, is split
\* on line breaks, each line trimmed and the blank lines dropped; exactly the
\* lines left are appended as unclaimed entries in their order and counted, so
\* the same text changes the pool the same way by either source
C33_UploadSourcesAgree ==
    LET lines == NormalLines(probe.line) IN
    /\ \A r \in Requests(uploads) :
           /\ ~Finished(r) => r.lines = lines
           /\ r.pc \in {"count", "reply"} =>
                  /\ r.inserted = Len(lines)
                  /\ Len(pool) = Len(lines)
                  /\ \A k \in 1..Len(pool) : pool[k].value = lines[k] /\ ~pool[k].used
    /\ Len(uploaded) <= Len(lines)
    /\ uploaded = SubSeq(lines, 1, Len(uploaded))
    /\ Len(pool) = Len(uploaded)
    /\ (probe.by # "none" /\ lines = <<>>) => DoneUpload \in Requests(uploads) /\ pool = <<>>
    /\ (probe.by # "none" /\ lines # <<>> /\ Quiet) => Len(pool) = Len(lines)

\* a text with blank lines and spaces around a line came in the message and
\* its lines are stored
C33_Witness ==
    /\ probe.by = "text"
    /\ Len(NormalLines(probe.line)) >= 2
    /\ \E k \in 1..Len(probe.line) : probe.line[k] = Space
    /\ \E r \in Requests(uploads) : r.pc = "reply" /\ Len(pool) = Len(NormalLines(probe.line))

(***************************************************************************)
(* Revocations whose storage request can fail                              *)
(***************************************************************************)
\* handleDelete: const rec = await revokeToken(token, id).catch(() => null);
\* the update fails, revokeToken throws, and the catch makes the error a null
handleDeleteFails ==
    \E r \in Requests(revokes) :
        /\ variant = "retry"
        /\ r.pc = "update"
        /\ revokes' = Replace(revokes, r, [r EXCEPT !.pc = "notFound"])
        /\ UNCHANGED <<variant, pool, redisPool, tokens, issued, issues, uploads, handout,
                       uploaded, probe, channel>>

\* revocations of the retry variant on a ledger that holds links
InitDelete ==
    /\ variant = "retry"
    /\ channel = "up"
    /\ \E m \in 0..MaxStock : \E k \in 0..MaxLedger :
           k <= m /\ k <= NumTokens /\ Ledgered(m, k, Owner)

NextDelete ==
    \/ StartRevoke(MaxRequests)
    \/ revokeDenied
    \/ revokeToken
    \/ handleDeleteFails
    \/ revokeReply
    \/ revokeNotFound

SpecDelete == InitDelete /\ [][NextDelete]_vars

\* C34: the delete callback answers 'token not found' only when the ledger
\* holds no record of the token; a storage failure is not answered so
C34_NotFoundOnlyWhenAbsent ==
    [][\A q \in Requests(revokes') :
          (Arrived(revokes, q) /\ q.pc = "notFound") => ~HasToken(q.token)]_vars

(***************************************************************************)
(* The administrator's commands sent by any actor: /upload, /list, /info   *)
(***************************************************************************)
\* the records in the order of their tokens
RECURSIVE RecordsOf(_)
RecordsOf(tk) ==
    IF tk = {} THEN <<>>
    ELSE LET rec == CHOOSE x \in tk : \A y \in tk : x.token <= y.token
         IN <<rec>> \o RecordsOf(tk \ {rec})

\* what the handler shows to the actor u, nothing when u is not allowed
Answer(u, op, shown) ==
    [probe EXCEPT !.by = op, !.now = u, !.line = IF Allowed(u) THEN shown ELSE <<>>]

\* /info <token>: if (!isAdmin(ctx)) return; the record of the token
actorInfo ==
    \E u \in Users : \E t \in TokenIds :
        /\ probe = NoProbe
        /\ probe' = Answer(u, "info", IF HasToken(t) THEN <<GetToken(tokens, t)>> ELSE <<>>)
        /\ UNCHANGED <<variant, pool, redisPool, tokens, issued, issues, uploads, handout,
                       uploaded, revokes, channel>>

\* /list: if (!isAdmin(ctx)) return; the last tokens
actorList ==
    \E u \in Users :
        /\ probe = NoProbe
        /\ probe' = Answer(u, "list", IF variant = "redis" THEN listTokens
                                      ELSE RecordsOf(tokens))
        /\ UNCHANGED <<variant, pool, redisPool, tokens, issued, issues, uploads, handout,
                       uploaded, revokes, channel>>

\* /upload: if (!isAdmin(ctx)) return; then the handler of the lines
actorUpload ==
    \E u \in Users : \E raw \in UploadTexts :
        /\ probe = NoProbe
        /\ probe' = Answer(u, "upload", <<>>)
        /\ IF Allowed(u) THEN ReceiveUpload(u, raw) ELSE uploads' = uploads
        /\ UNCHANGED <<variant, pool, redisPool, tokens, issued, issues, handout,
                       uploaded, revokes, channel>>

\* one command of one actor on a stocked pool and a ledger with links
InitActor ==
    /\ variant \in LedgerVariants
    /\ channel = "up"
    /\ \E m \in 0..MaxStock : \E k \in 0..MaxLedger :
           k <= m /\ k <= NumTokens /\ Ledgered(m, k, Owner)

NextActor ==
    \/ actorInfo
    \/ actorList
    \/ actorUpload
    \/ insertPoolItems
    \/ poolCount
    \/ insertRows
    \/ uploadLPush
    \/ uploadReply

SpecActor == InitActor /\ [][NextActor]_vars

\* the actor of the command is not in ADMIN_IDS
Outsider == probe.by \in {"info", "list", "upload"} /\ ~isAdmin(probe.now)

\* C35: /upload, /list and /info sent by an actor outside ADMIN_IDS change
\* neither the pool nor the ledger and show that actor no Token record
C35_OutsiderGetsNothing ==
    /\ [](Outsider => probe.line = <<>> /\ uploads = EmptyBag)
    /\ [][Outsider' => UNCHANGED <<pool, redisPool, tokens, issued, uploads, uploaded>>]_vars

\* an outsider asked for a record that the ledger holds
C35_Witness ==
    /\ Outsider /\ probe.by = "info"
    /\ tokens # {} /\ pool # <<>>

(***************************************************************************)
(* ADMIN_IDS and isAdmin, from the environment of the process              *)
(***************************************************************************)
Comma == ","

EnvAlphabet == {"1", "2", Comma, Space}

\* the values of process.env.ADMIN_IDS: unset, or a string
EnvValues == {Undefined} \cup UNION {[1..k -> EnvAlphabet] : k \in 0..MaxEnv}

\* ctx.from of the update: absent, or an actor with this id
NoFrom == <<"no from">>
Actors == {NoFrom, <<"1">>, <<"2">>, <<"1", "2">>}

\* process.env.ADMIN_IDS || ""
EnvOrEmpty(v) == IF v = Undefined THEN <<>> ELSE v

\* s.split(",")
RECURSIVE SplitCommas(_)
SplitCommas(text) ==
    IF \A k \in 1..Len(text) : text[k] # Comma THEN <<text>>
    ELSE LET n == Min({k \in 1..Len(text) : text[k] = Comma})
         IN <<SubSeq(text, 1, n - 1)>> \o SplitCommas(SubSeq(text, n + 1, Len(text)))

\* the elements of a list
Elements(list) == {list[k] : k \in 1..Len(list)}

\* .split(",").map((x) => x.trim()), the empty parts kept (minimal variant)
AdminIdsUnfiltered(v) == Elements([k \in 1..Len(SplitCommas(EnvOrEmpty(v))) |->
                                      Trim(SplitCommas(EnvOrEmpty(v))[k])])

\* the list without its .filter(Boolean)
AdminIdsKeepingBlanks(v) == AdminIdsUnfiltered(v)

\* .split(",").map((s) => s.trim()).filter(Boolean)
AdminIds(v) == Elements(UsableLines(SplitCommas(EnvOrEmpty(v))))

\* isAdmin(ctx): ADMIN_IDS.includes(String(ctx.from?.id || ""))
isAdminCtx(ids, from) ==
    IF (IF from = NoFrom THEN <<>> ELSE from) \in ids THEN "yes" ELSE "no"

\* isAdmin of the minimal variant: ADMIN_IDS.includes(String(ctx.from.id)),
\* a TypeError when the update has no ctx.from
isAdminMinimal(ids, from) ==
    IF from = NoFrom THEN "threw"
    ELSE IF from \in ids THEN "yes" ELSE "no"

runIsAdmin ==
    /\ probe.by = "none"
    /\ probe' = [probe EXCEPT !.by = "isAdmin",
                              !.key = isAdminCtx(AdminIds(probe.line), probe.now)]
    /\ UNCHANGED <<variant, pool, redisPool, tokens, issued, issues, uploads, handout,
                   uploaded, revokes, channel>>

runIsAdminMinimal ==
    /\ probe.by = "none"
    /\ probe' = [probe EXCEPT !.by = "isAdminMinimal",
                              !.key = isAdminMinimal(AdminIdsUnfiltered(probe.line), probe.now)]
    /\ UNCHANGED <<variant, pool, redisPool, tokens, issued, issues, uploads, handout,
                   uploaded, revokes, channel>>

InitAdmin ==
    /\ variant = "retry"
    /\ pool = <<>>
    /\ redisPool = <<>>
    /\ tokens = {}
    /\ issued = <<>>
    /\ issues = EmptyBag
    /\ uploads = EmptyBag
    /\ handout = <<>>
    /\ uploaded = <<>>
    /\ revokes = EmptyBag
    /\ channel = "up"
    /\ \E v \in EnvValues : \E from \in Actors :
           probe = [line |-> v, now |-> from, by |-> "none", login |-> <<>>, key |-> <<>>]

NextAdmin ==
    \/ runIsAdmin
    \/ runIsAdminMinimal

SpecAdmin == InitAdmin /\ [][NextAdmin]_vars

\* the ids written in the value: the parts between commas that are not blank
Written(v, id) ==
    \E a \in 0..Len(v) : \E b \in a..Len(v) :
        /\ a = 0 \/ v[a] = Comma
        /\ b = Len(v) \/ v[b + 1] = Comma
        /\ Strip(SubSeq(v, a + 1, b)) = id

\* C36: with ADMIN_IDS unset or empty no actor is an administrator, an update
\* without an actor included; isAdmin says yes only for an actor whose id is
\* written in ADMIN_IDS, and the check changes nothing
C36_NoAdminsWithoutList ==
    /\ [](probe.by \in {"isAdmin", "isAdminMinimal"} =>
            /\ probe.line \in {Undefined, <<>>} => probe.key # "yes"
            /\ probe.now = NoFrom => probe.key # "yes"
            /\ probe.key = "yes" <=>
                  (/\ probe.line # Undefined /\ probe.now # NoFrom
                   /\ Written(probe.line, probe.now)))
    /\ [][probe'.line = probe.line /\ probe'.now = probe.now]_vars

\* isAdmin was asked about an update without an actor and ADMIN_IDS unset
C36_Witness ==
    /\ probe.by = "isAdmin" /\ probe.line = Undefined /\ probe.now = NoFrom
    /\ probe.key = "no"

(***************************************************************************)
(* handleDelete of the two-request variant: the result of the update is    *)
(* never read                                                              *)
(***************************************************************************)
\* await supabase.from("tokens").update({ revoked: true, ... }).eq("token", token);
\* the request resolves with an error that nobody reads
updateErrorIgnored ==
    \E r \in Requests(revokes) :
        /\ variant = "twostep"
        /\ r.pc = "update"
        /\ revokes' = Replace(revokes, r, [r EXCEPT !.pc = "reply"])
        /\ UNCHANGED <<variant, pool, redisPool, tokens, issued, issues, uploads, handout,
                       uploaded, probe, channel>>

\* delete callbacks of the variants of part_001 on a ledger that holds links
InitDisable ==
    /\ variant \in {"retry", "twostep"}
    /\ channel = "up"
    /\ \E m \in 0..MaxStock : \E k \in 0..MaxLedger :
           k <= m /\ k <= NumTokens /\ Ledgered(m, k, Owner)

NextDisable ==
    \/ StartRevoke(MaxRequests)
    \/ revokeDenied
    \/ getToken
    \/ revokeToken
    \/ updateErrorIgnored
    \/ handleDeleteFails
    \/ revokeReply
    \/ revokeNotFound

SpecDisable == InitDisable /\ [][NextDisable]_vars

\* the ledger holds the record of token t with revoked = true
RevokedInLedger(t) == \E rec \in tokens : rec.token = t /\ rec.revoked

\* C37: whenever handleDelete answers that the link was disabled, the Token
\* record of that token has revoked = true in the ledger
C37_DisabledMeansRevoked ==
    [][\A r \in Requests(revokes) :
          (r.pc = "reply" /\ Moved(revokes, r) /\ Arrived(revokes, DoneRevoke))
              => RevokedInLedger(r.token)]_vars

(***************************************************************************)
(* Retry variant: concurrent issuances over entries that may repeat        *)
(***************************************************************************)
\* earlier uploads have stored at most MaxStock lines, the same line twice
\* included; /link requests of any user arrive at any time
InitOwn ==
    /\ variant = "retry"
    /\ \E m \in 0..MaxStock :
       \E lines \in {[k \in 1..m |-> LineA],
                     [k \in 1..m |-> IF k % 2 = 1 THEN LineC ELSE LineA]} :
          /\ pool = [k \in 1..m |-> Row(k, lines[k])]
          /\ uploaded = lines
    /\ redisPool = <<>>
    /\ tokens = {}
    /\ issued = <<>>
    /\ issues = EmptyBag
    /\ uploads = EmptyBag
    /\ handout = <<>>
    /\ probe = NoProbe
    /\ revokes = EmptyBag
    /\ channel = "up"

NextOwn ==
    \/ StartLink(MaxRequests)
    \/ popPoolItemWithRetrySelect
    \/ popPoolItemWithRetryUpdate
    \/ issueLinkForUserEmpty
    \/ insertTokenRecord
    \/ issueLinkForUserReply
    \/ logToChannel
    \/ linkCatch

SpecOwn == InitOwn /\ [][NextOwn]_vars

\* the claimed rows of pool_items
ClaimedRows == {j \in 1..Len(pool) : pool[j].used}

\* row j is a claimed entry that record rec can have been issued from
Corresponds(rec, j) ==
    /\ j \in ClaimedRows
    /\ pool[j].used_by_id = rec.issued_to_id
    /\ \E now \in Times :
          parseLoginKey(pool[j].value, now) = [login |-> rec.login, key |-> rec.key]

\* C38: in the retry variant every Token record corresponds to a claimed
\* entry of its own (payload parses to its login and key, used_by_id is its
\* issued_to_id), no two records to the same entry, and there are never more
\* records than claimed entries
C38_RecordsOwnClaimedEntries ==
    variant = "retry" =>
        /\ \E f \in [tokens -> 1..Len(pool)] :
              /\ \A rec \in tokens : Corresponds(rec, f[rec])
              /\ \A a, b \in tokens : f[a] = f[b] => a = b
        /\ Cardinality(tokens) <= Cardinality(ClaimedRows)

\* two links were issued from two entries with the same payload, to
\* different users
C38_Witness ==
    /\ variant = "retry"
    /\ \E a, b \in tokens :
          /\ a.token # b.token
          /\ a.login = b.login /\ a.key = b.key
          /\ a.issued_to_id # b.issued_to_id
    /\ Len(pool) = 2 /\ pool[1].value = pool[2].value

(***************************************************************************)
(* Redis variant: the list "issued" when it is full                        *)
(***************************************************************************)
\* redis(["LTRIM", "issued", 0, 49]) throws (!resp.ok || data.error): the
\* pushed token stays, nothing is cut, and the error leaves pushIssued and
\* issueLinkForUser for bot.catch
pushIssuedLTrimFails ==
    \E r \in Requests(issues) :
        /\ variant = "redis"
        /\ r.pc = "ltrim"
        /\ issues' = Replace(issues, r, [r EXCEPT !.pc = "caught"])
        /\ UNCHANGED <<variant, pool, redisPool, tokens, issued, uploads, handout,
                       uploaded, probe, revokes, channel>>

\* earlier requests have issued n links, one per stored line, and m more
\* lines wait in the pool
IssuedBefore(n, m) ==
    /\ pool = <<>>
    /\ redisPool = SubSeq(PushedLines(n + m), 1, m)
    /\ tokens = {TokenRecord(NumTokens + j, redisParse(LineOf(j), 1), Owner) : j \in 1..n}
    /\ issued = [i \in 1..n |-> NumTokens + n + 1 - i]
    /\ issues = EmptyBag
    /\ uploads = EmptyBag
    /\ revokes = EmptyBag
    /\ handout = [j \in 1..n |-> [id |-> j, value |-> LineOf(j)]]
    /\ uploaded = [j \in 1..(n + m) |-> LineOf(j)]
    /\ probe = NoProbe

\* the list "issued" is full, or one token short of it, when the run starts
InitIssued ==
    /\ variant = "redis"
    /\ channel = "up"
    /\ \E n \in {IssuedKept - 1, IssuedKept} : \E m \in 1..MaxStock : IssuedBefore(n, m)

NextIssued ==
    \/ StartLink(MaxRequests)
    \/ redisRPop
    \/ saveTokenRecord
    \/ saveTokenRecordFails
    \/ pushIssuedLPush
    \/ pushIssuedLTrim
    \/ pushIssuedLTrimFails
    \/ issueLinkEmpty
    \/ issueLinkReply
    \/ logToChannel
    \/ linkCatch

SpecIssued == InitIssued /\ [][NextIssued]_vars

\* a pushIssued call between its LPUSH and its LTRIM
TrimPending(r) == r.pc = "ltrim"

\* a step that changes the list is an LPUSH that puts its token at the head,
\* or leaves the head where it was
HeadStep ==
    issued' # issued =>
        \/ \E r \in Requests(issues) :
              r.pc = "lpush" /\ Moved(issues, r) /\ issued' # <<>> /\ Head(issued') = r.token
        \/ issued # <<>> /\ issued' # <<>> /\ Head(issued') = Head(issued)

\* C39: in the Redis variant the list "issued" holds at most 50 tokens when
\* no pushIssued call is between its LPUSH and its LTRIM, at most 50 plus the
\* number of such calls otherwise, and its head is the token pushed last
C39_IssuedBounded ==
    /\ [](variant = "redis" => Len(issued) <= IssuedKept + CountOf(issues, TrimPending))
    /\ [][HeadStep]_vars

====
